---------------------------- MODULE Spec2Model ----------------------------
(***************************************************************************)
(* A model of OpenApoc's TileView (src/game/ui/tileview/tileview.cpp): the *)
(* camera over a 3D tile map, its scroll flags, z-level, view mode and     *)
(* selected tile, and the event handlers and setters that change them.     *)
(*                                                                         *)
(* Floating-point values (Vec3<float> centerPos, screen positions) are     *)
(* kept in fixed point: an integer n stands for the float n / Q.  With the *)
(* tile sizes and inputs used here every float operation of the code is    *)
(* exact on such values, so the fixed-point result is the float result.    *)
(***************************************************************************)
EXTENDS Integers, FiniteSets, Sequences, TLC

\* ------------------------------------------------------------------ sizes

\* Fixed-point denominator of the float values: 1.0 is Q.
Q == 4

\* map.size (TileMap &map), the dimensions of the tile grid.
MapX == 2
MapY == 2
MapZ == 2

\* dpySize(fw().displayGetWidth(), fw().displayGetHeight()).
DpyW == 16
DpyH == 48

\* Width and height of a display smaller than the map's projection, under
\* which the visible tile rectangle is a part of the map, or empty.
SmallDpy == 1

\* Constructor arguments isoTileSize (x, y, z) and stratTileSize (x, y).
IsoTileX == 2
IsoTileY == 1
IsoTileZ == 3
StratTileX == 2
StratTileY == 2

\* isoScrollSpeed(0.5, 0.5) and stratScrollSpeed(2.0f, 2.0f), in fixed point.
isoScrollSpeed == [x |-> Q \div 2, y |-> Q \div 2]
stratScrollSpeed == [x |-> 2 * Q, y |-> 2 * Q]

\* maxZDraw(map.size.z): set at construction, never assigned again.
maxZDraw == MapZ

\* The pointer's vertical adjustment "+ 4 - 20" of the mouse-move handler.
MouseYAdjust == 4 - 20

ViewModes == {"Isometric", "Strategy"}

\* A TileViewMode value that is neither enumerator.
UnknownViewMode == "Unknown"

\* TileView::Mode and LayerDrawingMode.
Modes == {"City", "Battle"}
LayerDrawingModes == {"UpToCurrentLevel", "AllLevels", "OnlyCurrentLevel"}

\* map.getLayerCount(), and the longest per-layer object list of a tile.
LayerCount == 2
MaxObjs == 3

Vec3(a, b, c) == [x |-> a, y |-> b, z |-> c]
Vec2(a, b) == [x |-> a, y |-> b]

\* ---------------------------------------------------------------- helpers

\* (float)i for an int i.
ToFloat(i) == i * Q

\* Conversion of a float to int: truncation toward zero.
TruncToInt(a) == IF a >= 0 THEN a \div Q ELSE -((-a) \div Q)

\* Float division by an int tile size.
FDiv(a, n) == IF a >= 0 THEN a \div n ELSE -((-a) \div n)

\* clamp(v, lo, hi) of the library (not in tileview.cpp).
clamp(v, lo, hi) == IF v < lo THEN lo ELSE IF v > hi THEN hi ELSE v

\* tileToScreenCoords(c, mode): the forward transform (declared in tileview.h).
\* (tileToScreenCoordsNoZ: the isometric projection without its z term.)
tileToScreenCoordsNoZ(c, m) ==
    IF m = "Isometric"
    THEN Vec2((c.x - c.y) * IsoTileX, (c.x + c.y) * IsoTileY)
    ELSE Vec2(c.x * StratTileX, c.y * StratTileY)

tileToScreenCoords(c, m) ==
    IF m = "Isometric"
    THEN Vec2((c.x - c.y) * IsoTileX, (c.x + c.y) * IsoTileY - c.z * IsoTileZ)
    ELSE Vec2(c.x * StratTileX, c.y * StratTileY)

\* screenToTileCoords(s, z, mode): the inverse transform on the plane z
\* (declared in tileview.h).
screenToTileCoords(s, z, m) ==
    IF m = "Isometric"
    THEN LET a == FDiv(s.x, IsoTileX)
             b == FDiv(s.y + z * IsoTileZ, IsoTileY)
         IN  Vec3(FDiv(a + b, 2), FDiv(b - a, 2), z)
    ELSE Vec3(FDiv(s.x, StratTileX), FDiv(s.y, StratTileY), z)

\* ------------------------------------------------------------------ state

VARIABLES
    centerPos,              \* Vec3<float>, fixed point
    currentZLevel,          \* int
    selectedTilePosition,   \* Vec3<int>
    scrollUp, scrollDown, scrollLeft, scrollRight,
    viewMode,
    lastOp,                 \* history: the last operation and its parameter
    conv,                   \* a coordinate conversion in progress (SpecConv)
    mode,                   \* TileView::Mode, set at construction
    layerDrawingMode,
    dpySize,                \* Vec2<int>, set at construction
    files,                  \* the save directory: the content of each path
    threadPool,             \* the load tasks enqueued on fw().threadPool
    stageCmd,               \* MainMenu: the pending stage command
    pendingEvent,           \* history: the last event MainMenu acted on
                            \* since the previous Update
    Checked,                \* CheckBox: bool
    pushedEvents,           \* the events CheckBox has given to fw().PushEvent
    ownClicks               \* history: the MouseClick events the box raised

camVars == <<centerPos, currentZLevel, viewMode>>
scrollVars == <<scrollUp, scrollDown, scrollLeft, scrollRight>>
envVars == <<mode, layerDrawingMode, dpySize>>
saveVars == <<files, threadPool>>
menuVars == <<stageCmd, pendingEvent>>
checkBoxVars == <<Checked, pushedEvents, ownClicks>>
otherVars == <<saveVars, menuVars, checkBoxVars>>
tileViewVars == <<centerPos, currentZLevel, selectedTilePosition, scrollUp,
                  scrollDown, scrollLeft, scrollRight, viewMode, conv, mode,
                  layerDrawingMode, dpySize>>
vars == <<centerPos, currentZLevel, selectedTilePosition, scrollUp, scrollDown,
          scrollLeft, scrollRight, viewMode, lastOp, conv, mode,
          layerDrawingMode, dpySize, files, threadPool, stageCmd,
          pendingEvent, Checked, pushedEvents, ownClicks>>

\* ------------------------------------------------------------- operations

\* The clamp of TileView::setScreenCenterTile(Vec3<float>): each axis to
\* [0, map.size.axis].
\* (ClampedCenterNoUpper: without the upper bounds; ClampedCenterSwapped: with
\* the two results of the z axis exchanged.)
ClampedCenterNoUpper(center) ==
    Vec3(IF center.x < 0 THEN 0 ELSE center.x,
         IF center.y < 0 THEN 0 ELSE center.y,
         IF center.z < 0 THEN 0 ELSE center.z)

ClampedCenterSwapped(center) ==
    Vec3(IF center.x < 0 THEN 0
         ELSE IF center.x > ToFloat(MapX) THEN ToFloat(MapX) ELSE center.x,
         IF center.y < 0 THEN 0
         ELSE IF center.y > ToFloat(MapY) THEN ToFloat(MapY) ELSE center.y,
         IF center.z < 0 THEN ToFloat(MapZ)
         ELSE IF center.z > ToFloat(MapZ) THEN 0 ELSE center.z)

ClampedCenter(center) ==
    Vec3(IF center.x < 0 THEN 0
         ELSE IF center.x > ToFloat(MapX) THEN ToFloat(MapX) ELSE center.x,
         IF center.y < 0 THEN 0
         ELSE IF center.y > ToFloat(MapY) THEN ToFloat(MapY) ELSE center.y,
         IF center.z < 0 THEN 0
         ELSE IF center.z > ToFloat(MapZ) THEN ToFloat(MapZ) ELSE center.z)

\* TileView::getScreenOffset: Vec2<int>{dpySize/2 - tileToScreenCoords(centerPos)},
\* the float difference converted to int.
\* (ScreenOffsetNoHalf: dpySize instead of dpySize / 2.)
ScreenOffsetNoHalf(c, m) ==
    LET s == tileToScreenCoords(c, m)
    IN  Vec2(TruncToInt(ToFloat(dpySize.x) - s.x),
             TruncToInt(ToFloat(dpySize.y) - s.y))

ScreenOffset(c, m) ==
    LET s == tileToScreenCoords(c, m)
    IN  Vec2(TruncToInt(ToFloat(dpySize.x \div 2) - s.x),
             TruncToInt(ToFloat(dpySize.y \div 2) - s.y))

getScreenOffset == ScreenOffset(centerPos, viewMode)

\* The clamp of TileView::setSelectedTilePosition: each axis to
\* [0, map.size.axis - 1].
\* (ClampedSelectionOffByOne: ">" and map.size for ">=" and map.size - 1;
\* ClampedSelectionNoZ: the z axis left as given.)
ClampedSelectionNoZ(p) ==
    LET lo == Vec3(IF p.x < 0 THEN 0 ELSE p.x,
                   IF p.y < 0 THEN 0 ELSE p.y,
                   p.z)
    IN  Vec3(IF lo.x >= MapX THEN MapX - 1 ELSE lo.x,
             IF lo.y >= MapY THEN MapY - 1 ELSE lo.y,
             lo.z)

ClampedSelectionOffByOne(p) ==
    LET lo == Vec3(IF p.x < 0 THEN 0 ELSE p.x,
                   IF p.y < 0 THEN 0 ELSE p.y,
                   IF p.z < 0 THEN 0 ELSE p.z)
    IN  Vec3(IF lo.x > MapX THEN MapX ELSE lo.x,
             IF lo.y > MapY THEN MapY ELSE lo.y,
             IF lo.z > MapZ THEN MapZ ELSE lo.z)

ClampedSelection(p) ==
    LET lo == Vec3(IF p.x < 0 THEN 0 ELSE p.x,
                   IF p.y < 0 THEN 0 ELSE p.y,
                   IF p.z < 0 THEN 0 ELSE p.z)
    IN  Vec3(IF lo.x >= MapX THEN MapX - 1 ELSE lo.x,
             IF lo.y >= MapY THEN MapY - 1 ELSE lo.y,
             IF lo.z >= MapZ THEN MapZ - 1 ELSE lo.z)

\* The camera position render() computes from the scroll flags before
\* clamping it.
\* (RenderNewPosIsoOnly: the isometric speeds whatever the view mode;
\* RenderNewPosElseStrategy: the strategy speeds for every view mode that is
\* not Isometric.)
RenderNewPosIsoOnly(c, m, up, down, left, right) ==
    LET dx == (IF left THEN -isoScrollSpeed.x ELSE 0)
              + (IF right THEN isoScrollSpeed.x ELSE 0)
              + (IF up THEN -isoScrollSpeed.x ELSE 0)
              + (IF down THEN isoScrollSpeed.x ELSE 0)
        dy == (IF left THEN isoScrollSpeed.y ELSE 0)
              + (IF right THEN -isoScrollSpeed.y ELSE 0)
              + (IF up THEN -isoScrollSpeed.y ELSE 0)
              + (IF down THEN isoScrollSpeed.y ELSE 0)
    IN  Vec3(c.x + dx, c.y + dy, c.z)

RenderNewPosElseStrategy(c, m, up, down, left, right) ==
    IF m = "Isometric"
    THEN RenderNewPosIsoOnly(c, m, up, down, left, right)
    ELSE LET dx == (IF left THEN -stratScrollSpeed.x ELSE 0)
                   + (IF right THEN stratScrollSpeed.x ELSE 0)
             dy == (IF up THEN -stratScrollSpeed.y ELSE 0)
                   + (IF down THEN stratScrollSpeed.y ELSE 0)
         IN  Vec3(c.x + dx, c.y + dy, c.z)

RenderNewPos(c, m, up, down, left, right) ==
    IF m = "Isometric"
    THEN LET dx == (IF left THEN -isoScrollSpeed.x ELSE 0)
                   + (IF right THEN isoScrollSpeed.x ELSE 0)
                   + (IF up THEN -isoScrollSpeed.x ELSE 0)
                   + (IF down THEN isoScrollSpeed.x ELSE 0)
             dy == (IF left THEN isoScrollSpeed.y ELSE 0)
                   + (IF right THEN -isoScrollSpeed.y ELSE 0)
                   + (IF up THEN -isoScrollSpeed.y ELSE 0)
                   + (IF down THEN isoScrollSpeed.y ELSE 0)
         IN  Vec3(c.x + dx, c.y + dy, c.z)
    ELSE IF m = "Strategy"
    THEN LET dx == (IF left THEN -stratScrollSpeed.x ELSE 0)
                   + (IF right THEN stratScrollSpeed.x ELSE 0)
             dy == (IF up THEN -stratScrollSpeed.y ELSE 0)
                   + (IF down THEN stratScrollSpeed.y ELSE 0)
         IN  Vec3(c.x + dx, c.y + dy, c.z)
    ELSE c

\* The camera position a primary finger move asks for: centerPos - deltaPos.
\* (FingerNewPosAdded: centerPos + deltaPos.)
FingerNewPosAdded(c, m, dx, dy) ==
    LET px == FDiv(ToFloat(dx), IF m = "Isometric" THEN IsoTileX ELSE StratTileX)
        py == FDiv(ToFloat(dy), IF m = "Isometric" THEN IsoTileY ELSE StratTileY)
        delta == IF m = "Isometric" THEN Vec3(px + py, py - px, 0)
                 ELSE Vec3(px, py, 0)
    IN  Vec3(c.x + delta.x, c.y + delta.y, c.z + delta.z)

FingerNewPos(c, m, dx, dy) ==
    LET px == FDiv(ToFloat(dx), IF m = "Isometric" THEN IsoTileX ELSE StratTileX)
        py == FDiv(ToFloat(dy), IF m = "Isometric" THEN IsoTileY ELSE StratTileY)
        delta == IF m = "Isometric" THEN Vec3(px + py, py - px, 0)
                 ELSE Vec3(px, py, 0)
    IN  Vec3(c.x - delta.x, c.y - delta.y, c.z - delta.z)

\* The tile a mouse-move at device position (mx, my) selects, before the
\* clamp of setSelectedTilePosition.
\* (MouseTileAtLevel: on the plane currentZLevel instead of currentZLevel - 1.)
MouseTileAtLevel(c, m, zl, mx, my) ==
    LET off == ScreenOffset(c, m)
        s == Vec2(ToFloat(mx) - ToFloat(off.x),
                  ToFloat(my) + ToFloat(MouseYAdjust) - ToFloat(off.y))
        t == screenToTileCoords(s, ToFloat(zl), m)
    IN  Vec3(TruncToInt(t.x), TruncToInt(t.y), TruncToInt(t.z))

MouseTile(c, m, zl, mx, my) ==
    LET off == ScreenOffset(c, m)
        s == Vec2(ToFloat(mx) - ToFloat(off.x),
                  ToFloat(my) + ToFloat(MouseYAdjust) - ToFloat(off.y))
        t == screenToTileCoords(s, ToFloat(zl - 1), m)
    IN  Vec3(TruncToInt(t.x), TruncToInt(t.y), TruncToInt(t.z))


\* ---------------------------------------------------------------- tile map

\* The per-layer object lists that tiles hold, by the types of their objects.
Patterns ==
    << <<>>,
       <<"Ground">>,
       <<"Ground", "Unit", "Scenery">>,
       <<"Scenery", "Ground">>,
       <<"Ground", "Ground", "Item">> >>

PatternOf(x, y, z, layer) == Patterns[((x + 2 * y + 4 * z + 2 * layer) % 5) + 1]

\* The identity of the object at position idx of a per-layer list: every
\* object is held by one list, once.
ObjId(x, y, z, layer, idx) ==
    ((((z * MapY + y) * MapX + x) * LayerCount + layer) * MaxObjs) + idx

\* A tile: drawnObjects[layer], the ordered list of the objects drawn in it,
\* and the types of its intersectingObjects (its own objects and, on every
\* other tile, a unit standing across its border).
TileAt(x, y, z) ==
    [ drawnObjects |->
        [ layer \in 0 .. LayerCount - 1 |->
            [ i \in 1 .. Len(PatternOf(x, y, z, layer)) |->
                [ id |-> ObjId(x, y, z, layer, i),
                  type |-> PatternOf(x, y, z, layer)[i] ] ] ],
      intersectingObjects |->
        { PatternOf(x, y, z, 0)[i] : i \in 1 .. Len(PatternOf(x, y, z, 0)) }
        \cup (IF (x + y + z) % 2 = 1 THEN {"Unit"} ELSE {}) ]

\* TileMap &map: the tiles of a map of map.size, by <<x, y, z>>.
tileMap ==
    [ t \in (0 .. MapX - 1) \X (0 .. MapY - 1) \X (0 .. MapZ - 1) |->
        TileAt(t[1], t[2], t[3]) ]

EmptyTile ==
    [ drawnObjects |-> [ layer \in 0 .. LayerCount - 1 |-> <<>> ],
      intersectingObjects |-> {} ]

InMap(x, y, z) ==
    /\ 0 <= x /\ x < MapX
    /\ 0 <= y /\ y < MapY
    /\ 0 <= z /\ z < MapZ

\* map.getTile(x, y, z).  A lookup outside the map has no defined result:
\* the pass that made it counts as not completed (see RenderPass), and
\* the tile it goes on with is taken to hold nothing.
GetTile(x, y, z) == IF InMap(x, y, z) THEN tileMap[<<x, y, z>>] ELSE EmptyTile

\* ------------------------------------------------------------ render pass

Max(a, b) == IF a >= b THEN a ELSE b
Min(a, b) == IF a <= b THEN a ELSE b

\* The values a for-loop "for (int i = a; i < b; i++)" takes, in order.
SeqRange(a, b) == [ i \in 1 .. (b - a) |-> a + i - 1 ]

RECURSIVE Concat(_)
Concat(ss) == IF Len(ss) = 0 THEN <<>> ELSE Head(ss) \o Concat(Tail(ss))

\* One call made by the pass: a loop iteration over a z-level ("level"), a
\* map.getTile ("getTile" in the scan, "getSelectedTile" for the selected
\* tile column), obj->draw ("drawObject"), r.draw of a selection image
\* ("drawBack", "drawFront") or r.drawLine ("drawLine", with its end points).
Call(c, z, layer, y, x, idx, id, image) ==
    [ call |-> c, z |-> z, layer |-> layer, y |-> y, x |-> x, idx |-> idx,
      id |-> id, image |-> image, from |-> Vec2(0, 0), to |-> Vec2(0, 0) ]

\* offsetScreenToTileCoords(Vec2<int>{sx, sy}, z):
\* screenToTileCoords(screenPos - getScreenOffset(), z) as Vec3<int>
\* (declared in tileview.h).
offsetScreenToTileCoords(c, m, sx, sy, z) ==
    LET off == ScreenOffset(c, m)
        t == screenToTileCoords(Vec2(ToFloat(sx - off.x), ToFloat(sy - off.y)),
                                ToFloat(z), m)
    IN  Vec3(TruncToInt(t.x), TruncToInt(t.y), TruncToInt(t.z))

\* minX, maxX, minY, maxY of render(): the tiles at the four corners of the
\* display, cut to the map.
\* (VisibleRectNoClamp: without the std::max / std::min against the map.)
VisibleRectNoClamp(c, m) ==
    LET topLeft == offsetScreenToTileCoords(c, m, -IsoTileX, -IsoTileY, 0)
        topRight == offsetScreenToTileCoords(c, m, dpySize.x, -IsoTileY, 0)
        bottomLeft == offsetScreenToTileCoords(c, m, -IsoTileX, dpySize.y, MapZ)
        bottomRight == offsetScreenToTileCoords(c, m, dpySize.x, dpySize.y, MapZ)
    IN  [ minX |-> topLeft.x, maxX |-> bottomRight.x,
          minY |-> topRight.y, maxY |-> bottomLeft.y ]

VisibleRect(c, m) ==
    LET topLeft == offsetScreenToTileCoords(c, m, -IsoTileX, -IsoTileY, 0)
        topRight == offsetScreenToTileCoords(c, m, dpySize.x, -IsoTileY, 0)
        bottomLeft == offsetScreenToTileCoords(c, m, -IsoTileX, dpySize.y, MapZ)
        bottomRight == offsetScreenToTileCoords(c, m, dpySize.x, dpySize.y, MapZ)
    IN  [ minX |-> Max(0, topLeft.x), maxX |-> Min(MapX, bottomRight.x),
          minY |-> Max(0, topRight.y), maxY |-> Min(MapY, bottomLeft.y) ]

\* zFrom and zTo of render(): the switch over layerDrawingMode, which keeps
\* the initial 0 and maxZDraw for a value that is no enumerator.
\* (ZRangeBelowCurrent: OnlyCurrentLevel starting one level too low.)
ZRangeBelowCurrent(ldm, zl) ==
    IF ldm = "UpToCurrentLevel" THEN [from |-> 0, to |-> zl]
    ELSE IF ldm = "AllLevels" THEN [from |-> 0, to |-> maxZDraw]
    ELSE IF ldm = "OnlyCurrentLevel" THEN [from |-> Max(0, zl - 2), to |-> zl]
    ELSE [from |-> 0, to |-> maxZDraw]

ZRange(ldm, zl) ==
    IF ldm = "UpToCurrentLevel" THEN [from |-> 0, to |-> zl]
    ELSE IF ldm = "AllLevels" THEN [from |-> 0, to |-> maxZDraw]
    ELSE IF ldm = "OnlyCurrentLevel" THEN [from |-> zl - 1, to |-> zl]
    ELSE [from |-> 0, to |-> maxZDraw]

\* drawBackBeforeThis: the first object of the list that is not Ground, by
\* its identity; 0 when there is none (a null pointer).
FirstNonGround(objs) ==
    LET S == { i \in 1 .. Len(objs) : objs[i].type # "Ground" }
    IN  IF S = {} THEN 0
        ELSE objs[CHOOSE i \in S : \A j \in S : i <= j].id

\* selectionImageBack / selectionImageFront on level z for the selected
\* tile column's tile t: which pair of sprites.
\* (HighlightImageNoUnit: without the search for a unit.)
HighlightImageNoUnit(z, t) ==
    IF selectedTilePosition.z = z THEN "empty" ELSE "background"

HighlightImage(z, t) ==
    IF selectedTilePosition.z = z
    THEN IF "Unit" \in t.intersectingObjects THEN "filled" ELSE "empty"
    ELSE "background"

\* The selection bracket of level z: whether the selected tile column is
\* highlighted on it (selTileOnCurLevel is set), before which object the back
\* sprite goes, and the sprite pair.
Selection(z, rect) ==
    IF /\ mode = "Battle"
       /\ viewMode = "Isometric"
       /\ selectedTilePosition.z >= z
       /\ selectedTilePosition.x >= rect.minX
       /\ selectedTilePosition.x < rect.maxX
       /\ selectedTilePosition.y >= rect.minY
       /\ selectedTilePosition.y < rect.maxY
    THEN LET t == GetTile(selectedTilePosition.x, selectedTilePosition.y, z)
         IN  [ tile |-> TRUE,
               backBefore |-> FirstNonGround(t.drawnObjects[0]),
               image |-> HighlightImage(z, t) ]
    ELSE [ tile |-> FALSE, backBefore |-> 0, image |-> "none" ]

\* The calls of the innermost loop body for tile (x, y, z) and one layer,
\* sel being the selection bracket of the level.
\* (TileCallsBackFirst: the back sprite before every object of the tile;
\* TileCallsSkipMarked: the object the back sprite goes before is not drawn.)
TileCallsBackFirst(z, layer, y, x, sel) ==
    LET objs == GetTile(x, y, z).drawnObjects[layer]
        get == Call("getTile", z, layer, y, x, 0, 0, "none")
        draws == [ i \in 1 .. Len(objs) |->
                     Call("drawObject", z, layer, y, x, i, objs[i].id, "none") ]
    IN  IF /\ sel.tile
           /\ x = selectedTilePosition.x /\ y = selectedTilePosition.y
           /\ layer = 0
        THEN <<get, Call("drawBack", z, layer, y, x, 0, 0, sel.image)>>
             \o draws
             \o <<Call("drawFront", z, layer, y, x, 0, 0, sel.image)>>
        ELSE <<get, get>> \o draws

TileCallsSkipMarked(z, layer, y, x, sel) ==
    LET objs == GetTile(x, y, z).drawnObjects[layer]
        get == Call("getTile", z, layer, y, x, 0, 0, "none")
        back == Call("drawBack", z, layer, y, x, 0, 0, sel.image)
        front == Call("drawFront", z, layer, y, x, 0, 0, sel.image)
    IN  IF /\ sel.tile
           /\ x = selectedTilePosition.x /\ y = selectedTilePosition.y
           /\ layer = 0
        THEN <<get>>
             \o Concat([ i \in 1 .. Len(objs) |->
                           IF objs[i].id = sel.backBefore
                           THEN <<back>>
                           ELSE <<Call("drawObject", z, layer, y, x, i,
                                       objs[i].id, "none")>> ])
             \o (IF sel.backBefore = 0 THEN <<back>> ELSE <<>>)
             \o <<front>>
        ELSE <<get, get>>
             \o [ i \in 1 .. Len(objs) |->
                    Call("drawObject", z, layer, y, x, i, objs[i].id, "none") ]

TileCalls(z, layer, y, x, sel) ==
    LET objs == GetTile(x, y, z).drawnObjects[layer]
        get == Call("getTile", z, layer, y, x, 0, 0, "none")
        back == Call("drawBack", z, layer, y, x, 0, 0, sel.image)
        front == Call("drawFront", z, layer, y, x, 0, 0, sel.image)
    IN  IF /\ sel.tile
           /\ x = selectedTilePosition.x /\ y = selectedTilePosition.y
           /\ layer = 0
        THEN <<get>>
             \o Concat([ i \in 1 .. Len(objs) |->
                           (IF objs[i].id = sel.backBefore
                            THEN <<back>> ELSE <<>>)
                           \o <<Call("drawObject", z, layer, y, x, i,
                                     objs[i].id, "none")>> ])
             \o (IF sel.backBefore = 0 THEN <<back>> ELSE <<>>)
             \o <<front>>
        ELSE <<get, get>>
             \o [ i \in 1 .. Len(objs) |->
                    Call("drawObject", z, layer, y, x, i, objs[i].id, "none") ]

\* The calls of one iteration of the loop over z: the selection bracket of
\* the level, then the loops over layer, y and x.
\* (LevelCallsTileMajor: the loop over the layers inside the loops over the
\* tiles.)
LevelCallsTileMajor(z, rect) ==
    LET sel == Selection(z, rect)
        layers == SeqRange(0, LayerCount)
        ys == SeqRange(rect.minY, rect.maxY)
        xs == SeqRange(rect.minX, rect.maxX)
    IN  <<Call("level", z, 0, 0, 0, 0, 0, "none")>>
        \o (IF sel.tile
            THEN <<Call("getSelectedTile", z, 0, selectedTilePosition.y,
                        selectedTilePosition.x, 0, 0, "none")>>
            ELSE <<>>)
        \o Concat([ j \in 1 .. Len(ys) |->
             Concat([ i \in 1 .. Len(xs) |->
               Concat([ l \in 1 .. Len(layers) |->
                 TileCalls(z, layers[l], ys[j], xs[i], sel) ]) ]) ])

LevelCalls(z, rect) ==
    LET sel == Selection(z, rect)
        layers == SeqRange(0, LayerCount)
        ys == SeqRange(rect.minY, rect.maxY)
        xs == SeqRange(rect.minX, rect.maxX)
    IN  <<Call("level", z, 0, 0, 0, 0, 0, "none")>>
        \o (IF sel.tile
            THEN <<Call("getSelectedTile", z, 0, selectedTilePosition.y,
                        selectedTilePosition.x, 0, 0, "none")>>
            ELSE <<>>)
        \o Concat([ l \in 1 .. Len(layers) |->
             Concat([ j \in 1 .. Len(ys) |->
               Concat([ i \in 1 .. Len(xs) |->
                 TileCalls(z, layers[l], ys[j], xs[i], sel) ]) ]) ])

\* tileToOffsetScreenCoords(t): tileToScreenCoords(t, viewMode) +
\* getScreenOffset() (declared in tileview.h).
tileToOffsetScreenCoords(c, m, t) ==
    LET s == tileToScreenCoords(t, m)
        off == ScreenOffset(c, m)
    IN  Vec2(s.x + ToFloat(off.x), s.y + ToFloat(off.y))

\* A corner of the display of the isometric view around centre c, as a
\* position of the view in mode m: the centre's isometric screen position on
\* plane 0, moved by half the display to the side (sx, sy), taken to the
\* tile under it and from there to the screen.
\* topLeftRectPos is the corner (-1, -1), bottomRightRectPos the corner (1, 1).
OutlineCorner(c, m, sx, sy) ==
    LET centerIso == tileToScreenCoords(Vec3(c.x, c.y, 0), "Isometric")
        isoScreenPos == Vec2(centerIso.x + sx * ToFloat(dpySize.x \div 2),
                             centerIso.y + sy * ToFloat(dpySize.y \div 2))
    IN  tileToOffsetScreenCoords(c, m,
                                 screenToTileCoords(isoScreenPos, 0, "Isometric"))

\* r.drawLine(from, to, ...), the idx-th line of the outline.
LineCall(idx, from, to) ==
    [ Call("drawLine", 0, 0, 0, 0, idx, 0, "none")
        EXCEPT !.from = from, !.to = to ]

\* The four r.drawLine calls of the isometric view's outline, made in
\* Strategy view.
\* (OutlineCallsAlways: without the test of the view mode.)
OutlineCallsAlways(c) ==
    LET topLeft == OutlineCorner(c, viewMode, -1, -1)
        topRight == OutlineCorner(c, viewMode, 1, -1)
        bottomLeft == OutlineCorner(c, viewMode, -1, 1)
        bottomRight == OutlineCorner(c, viewMode, 1, 1)
    IN  << LineCall(1, topLeft, topRight),
           LineCall(2, topRight, bottomRight),
           LineCall(3, bottomRight, bottomLeft),
           LineCall(4, bottomLeft, topLeft) >>

OutlineCalls(c) ==
    IF viewMode = "Strategy"
    THEN LET topLeft == OutlineCorner(c, viewMode, -1, -1)
             topRight == OutlineCorner(c, viewMode, 1, -1)
             bottomLeft == OutlineCorner(c, viewMode, -1, 1)
             bottomRight == OutlineCorner(c, viewMode, 1, 1)
         IN  << LineCall(1, topLeft, topRight),
                LineCall(2, topRight, bottomRight),
                LineCall(3, bottomRight, bottomLeft),
                LineCall(4, bottomLeft, topLeft) >>
    ELSE <<>>

\* The calls of render() after it has moved the camera to centre c.
RenderCalls(c) ==
    LET rect == VisibleRect(c, viewMode)
        zr == ZRange(layerDrawingMode, currentZLevel)
        zs == SeqRange(zr.from, zr.to)
    IN  Concat([ k \in 1 .. Len(zs) |-> LevelCalls(zs[k], rect) ])
        \o OutlineCalls(c)

\* What a render() pass from centre c does: its calls, and whether it ran to its end,
\* which it is taken to do unless it has looked up a tile outside the map.
RenderPass(c) ==
    LET calls == RenderCalls(c)
    IN  [ calls |-> calls,
          completed |->
            \A i \in 1 .. Len(calls) :
                calls[i].call \in {"getTile", "getSelectedTile"} =>
                    InMap(calls[i].x, calls[i].y, calls[i].z) ]

\* ----------------------------------------------------------- save manager

\* "for (int retries = 5; retries > 0; retries--)" of writeArchiveWithBackup
\* and of newSaveGame.
MaxRetries == 5

\* The most load tasks waiting on the thread pool at a time.
MaxTasks == 2

\* What a path of the save directory holds: nothing, a complete archive of
\* one game state, or what a failed archive write has left behind.
Absent == "absent"
Partial == "partial"
SaveData == {"state1", "state2"}

saveDirectory == "saves"
saveFileExtension == ".save"

\* createSavePath(name): saveDirectory + "/" + name + ".save".  A name is
\* the sequence of the strings it is concatenated from.
createSavePath(name) == <<saveDirectory>> \o name \o <<saveFileExtension>>

\* saveDirectory / (uuid + ".save"), the temporary backup's path.
TempPath(uuid) == <<saveDirectory, uuid, saveFileExtension>>

\* saveTypeNames.
SaveTypes == {"Manual", "Quick", "Auto"}
saveTypeNames ==
    [ Manual |-> <<"New saved game">>, Quick |-> <<"Quicksave">>,
      Auto |-> <<"Autosave">> ]

\* Names given to newSaveGame, values of rand() as strings, and values of
\* the uuid generator.
SaveNames == {"a"}
RandValues == {"1", "2"}
Uuids == {"uuid1", "uuid2"}

NewSavePaths ==
    { createSavePath(<<"save_", n>>) : n \in SaveNames }
    \cup { createSavePath(<<"save_", n, r>>) : n \in SaveNames, r \in RandValues }
SpecialPaths == { createSavePath(saveTypeNames[t]) : t \in SaveTypes }
TempPaths == { TempPath(u) : u \in Uuids }
AllPaths == NewSavePaths \cup SpecialPaths \cup TempPaths

\* What the environment does during one call: the uuids drawn for the
\* temporary path (the same one every time, or another one from the second
\* or at the last draw), how archive->write ends (true, false or a
\* filesystem_error, with or without a partly written file left at the
\* path), and which filesystem operation of the call raises a
\* filesystem_error when it is reached, if any.
WriteOutcomes == {"ok", "false", "falsePartial", "throws", "throwsPartial"}
Faults == {"none", "renameToTemp", "removeTemp", "removeSave", "renameBack"}
UuidDraws ==
    { [ i \in 1 .. MaxRetries |-> "uuid1" ],
      [ i \in 1 .. MaxRetries |-> "uuid2" ],
      [ i \in 1 .. MaxRetries |-> IF i = 1 THEN "uuid1" ELSE "uuid2" ],
      [ i \in 1 .. MaxRetries |-> IF i = MaxRetries THEN "uuid2" ELSE "uuid1" ] }
Envs == [ uuids : UuidDraws, write : WriteOutcomes, fault : Faults ]

\* The environments of a call that finds no file at the save path: such a
\* call draws no uuid and makes no filesystem operation that changes a file.
EnvsNoFile ==
    [ uuids : { [ i \in 1 .. MaxRetries |-> "uuid1" ] }, write : WriteOutcomes,
      fault : {"none"} ]

\* The environments in which the uuid generator returns the same value at
\* every draw.
EnvsOneUuid ==
    [ uuids : { [ i \in 1 .. MaxRetries |-> "uuid1" ] }, write : WriteOutcomes,
      fault : Faults ]

\* The index of the first of the paths that does not exist in f; 0 if all exist.
FirstFree(f, paths) ==
    LET free == { i \in 1 .. Len(paths) : f[paths[i]] = Absent }
    IN  IF free = {} THEN 0 ELSE CHOOSE i \in free : \A j \in free : i <= j

\* The directory after archive->write(path, pack) of data has ended as w.
archiveWrite(f, path, data, w) ==
    IF w = "ok" THEN [f EXCEPT ![path] = data]
    ELSE IF w \in {"falsePartial", "throwsPartial"} THEN [f EXCEPT ![path] = Partial]
    ELSE f

\* What a call leaves: the directory, how the call ends ("true", "false", or
\* "raised" when an exception leaves the function), how archive->write ended
\* ("none" if it was not called) and the filesystem operation that raised
\* an error ("none" if none did).
CallEnd(f, result, write, raised) ==
    [ files |-> f, result |-> result, write |-> write, raised |-> raised ]

\* writeArchiveWithBackup(archive, path, pack) in directory f under
\* environment e.
\* (writeArchiveNoBackup: the archive is written over the existing file.)
writeArchiveNoBackup(f, path, data, e) ==
    CallEnd(archiveWrite(f, path, data, e.write),
            IF e.write = "ok" THEN "true" ELSE "false", e.write, "none")

writeArchiveWithBackup(f, path, data, e) ==
    IF f[path] = Absent
    THEN CallEnd(archiveWrite(f, path, data, e.write),
                 IF e.write = "ok" THEN "true" ELSE "false", e.write, "none")
    ELSE
      LET tempPaths == [ i \in 1 .. MaxRetries |-> TempPath(e.uuids[i]) ]
          found == FirstFree(f, tempPaths)
      IN  IF found = 0 THEN CallEnd(f, "false", "none", "none")
          ELSE IF e.fault = "renameToTemp"
          THEN CallEnd(f, "false", "none", "renameToTemp")
          ELSE
            LET tempPath == tempPaths[found]
                renamed == [f EXCEPT ![tempPath] = f[path], ![path] = Absent]
                written == archiveWrite(renamed, path, data, e.write)
                removed == [written EXCEPT ![path] = Absent]
                restored == [removed EXCEPT ![path] = removed[tempPath],
                                            ![tempPath] = Absent]
                \* shouldCleanup is true only while archive->write runs: an
                \* error raised by it is handled by restoring the backup,
                \* and an error raised while restoring leaves the function.
                handler == e.write \in {"throws", "throwsPartial"}
            IN  IF e.write = "ok"
                THEN IF e.fault = "removeTemp"
                     THEN CallEnd(written, "false", e.write, "removeTemp")
                     ELSE CallEnd([written EXCEPT ![tempPath] = Absent],
                                  "true", e.write, "none")
                ELSE IF e.fault = "removeSave" /\ written[path] # Absent
                THEN CallEnd(written, IF handler THEN "raised" ELSE "false",
                             e.write, "removeSave")
                ELSE IF e.fault = "renameBack"
                THEN CallEnd(removed, IF handler THEN "raised" ELSE "false",
                             e.write, "renameBack")
                ELSE CallEnd(restored, "false", e.write, "none")

\* saveGame(metadata, gameState): serialized is whether gameState->serialize
\* and metadata.serializeManifest both return true.
saveGame(f, path, data, serialized, e) ==
    IF serialized THEN writeArchiveWithBackup(f, path, data, e)
    ELSE CallEnd(f, "false", "none", "none")

\* ---------------------------------------------------------------- inputs

ArrowKeys == {"UP", "DOWN", "LEFT", "RIGHT"}
SelectKeys == {"s", "w", "a", "d", "r", "f"}
OtherKeys == {"1", "F6"}

\* Arguments of setZLevel: below, inside and above [1, maxZDraw].
ZInputs == -1 .. (MapZ + 2)

\* Arguments of setScreenCenterTile(Vec3<float>), fixed point: below, inside,
\* on and above the bounds [0, map.size] of each axis.
CenterInputs ==
    { Vec3(-5 * Q, -5 * Q, 0),
      Vec3(Q \div 2, Q \div 2, Q),
      Vec3(ToFloat(MapX), ToFloat(MapY), ToFloat(MapZ)),
      Vec3(ToFloat(MapX + 1), ToFloat(MapY + 1), ToFloat(MapZ + 1)),
      Vec3(Q \div 2, ToFloat(MapY + 1), -Q),
      Vec3(ToFloat(MapX + 1), -Q \div 2, ToFloat(MapZ)),
      Vec3(0, ToFloat(MapY) - Q \div 2, -5 * Q) }

\* Arguments of setScreenCenterTile(Vec2<float>), fixed point.
Center2Inputs ==
    { Vec2(-Q, ToFloat(MapY + 1)), Vec2(Q \div 2, Q), Vec2(ToFloat(MapX), 0) }

\* Finger moves: DeltaX, DeltaY in pixels and IsPrimary.
FingerInputs ==
    { [dx |-> d[1], dy |-> d[2], primary |-> p] :
        d \in {<<1, 0>>, <<-1, 0>>, <<0, 1>>, <<0, -1>>, <<3, -2>>},
        p \in BOOLEAN } 

\* Arguments of setSelectedTilePosition: below, inside, on and above the map.
SelectInputs ==
    { Vec3(20, 20, 1), Vec3(-1, -3, -1), Vec3(0, 0, 0),
      Vec3(MapX - 1, MapY - 1, MapZ - 1), Vec3(MapX, MapY, MapZ),
      Vec3(1, -1, MapZ + 4), Vec3(-2, MapY, 0) }

\* Pointer positions on the display, in pixels.
MouseInputs ==
    { Vec2(mx, my) : mx \in {0, 6, 8, 11, DpyW - 1},
                     my \in {0, 40, 41, 43, DpyH - 1} }

\* Tile coordinates within the map bounds, on the half-tile grid, fixed point.
TileInputs ==
    { Vec3(x * (Q \div 2), y * (Q \div 2), ToFloat(z)) :
        x \in 0 .. 2 * MapX, y \in 0 .. 2 * MapY, z \in 0 .. MapZ }

\* ------------------------------------------------- main menu, check box

\* StageCmd(): the default-constructed command, CONTINUE with no next stage.
NoStage == "null"
StageCmd == [ cmd |-> "CONTINUE", nextStage |-> NoStage ]

\* The events the stage and the controls of a form are handed: key events
\* with a key code, form interactions with a flag and the control that
\* raised them (RaisedBy, with its Name), and events of other types.
KeyCodes == { "SDLK_ESCAPE", "SDLK_RETURN" }
ButtonNames ==
    { "BUTTON_OPTIONS", "BUTTON_QUIT", "BUTTON_NEWGAME", "BUTTON_DEBUG",
      "BUTTON_LOADGAME", "VERSION_LABEL" }
FormEventTypes ==
    { "ButtonClick", "MouseDown", "MouseUp", "MouseClick", "CheckBoxChange" }
KeyEvent(type, key) ==
    [ Type |-> type, KeyCode |-> key, EventFlag |-> "none", RaisedBy |-> "none" ]
FormEvent(flag, by) ==
    [ Type |-> "EVENT_FORM_INTERACTION", KeyCode |-> "none", EventFlag |-> flag,
      RaisedBy |-> by ]
OtherEvent ==
    [ Type |-> "EVENT_MOUSE_MOVE", KeyCode |-> "none", EventFlag |-> "none",
      RaisedBy |-> "none" ]

NoEvent ==
    [ Type |-> "none", KeyCode |-> "none", EventFlag |-> "none",
      RaisedBy |-> "none" ]

\* The stage commands of the buttons of MainMenu::EventOccurred.
ButtonStage ==
    [ BUTTON_OPTIONS |-> "OptionsMenu", BUTTON_NEWGAME |-> "DifficultyMenu",
      BUTTON_DEBUG |-> "DebugMenu", BUTTON_LOADGAME |-> "SaveMenu" ]

\* stageCmd after MainMenu::EventOccurred(e): Escape pressed and the Quit
\* button assign cmd only; the four menu buttons assign cmd and nextStage;
\* every other event leaves stageCmd as it is.
MenuHandle(cmd, e) ==
    IF e.Type = "EVENT_KEY_DOWN" /\ e.KeyCode = "SDLK_ESCAPE"
    THEN [cmd EXCEPT !.cmd = "QUIT"]
    ELSE IF e.Type = "EVENT_FORM_INTERACTION" /\ e.EventFlag = "ButtonClick"
    THEN IF e.RaisedBy = "BUTTON_QUIT" THEN [cmd EXCEPT !.cmd = "QUIT"]
         ELSE IF e.RaisedBy \in DOMAIN ButtonStage
              THEN [ cmd |-> "PUSH", nextStage |-> ButtonStage[e.RaisedBy] ]
              ELSE cmd
    ELSE cmd

\* The events MainMenu::EventOccurred acts on.
MenuCommandEvents ==
    { KeyEvent("EVENT_KEY_DOWN", "SDLK_ESCAPE") }
    \cup { FormEvent("ButtonClick", b) :
              b \in DOMAIN ButtonStage \cup { "BUTTON_QUIT" } }

\* The two conditions of CheckBox::EventOccured: a form interaction raised
\* by this control, with the flag MouseDown (a sound) or MouseClick (toggle).
This == "CHECKBOX"
MaxClicks == 3
CheckBoxSounds(e) ==
    /\ e.Type = "EVENT_FORM_INTERACTION"
    /\ e.RaisedBy = This
    /\ e.EventFlag = "MouseDown"

CheckBoxTogglesAnyControl(e) ==
    /\ e.Type = "EVENT_FORM_INTERACTION"
    /\ e.EventFlag = "MouseClick"

CheckBoxToggles(e) ==
    /\ e.Type = "EVENT_FORM_INTERACTION"
    /\ e.RaisedBy = This
    /\ e.EventFlag = "MouseClick"

\* The event the toggle pushes: a copy of the form data of e with the flag
\* CheckBoxChange.
CheckBoxChange(e) ==
    [ Type |-> e.Type, KeyCode |-> "none", EventFlag |-> "CheckBoxChange",
      RaisedBy |-> e.RaisedBy ]

\* ------------------------------------------------------------------- Init

\* An empty save directory and an idle thread pool; a main menu with no
\* pending command (Stage() default-constructs stageCmd); a check box as
\* CheckBox::CheckBox leaves it, Checked(false), with nothing pushed yet.
InitOther ==
    /\ files = [ p \in AllPaths |-> Absent ]
    /\ threadPool = <<>>
    /\ stageCmd = StageCmd
    /\ pendingEvent = NoEvent
    /\ Checked = FALSE
    /\ pushedEvents = <<>>
    /\ ownClicks = 0

\* The state the constructor leaves: centerPos(0, 0, 0), currentZLevel(1),
\* selectedTilePosition(0, 0, 0), all scroll flags false, viewMode(initialMode),
\* and for Mode::City layerDrawingMode AllLevels.
Init ==
    /\ centerPos = Vec3(0, 0, 0)
    /\ currentZLevel = 1
    /\ selectedTilePosition = Vec3(0, 0, 0)
    /\ scrollUp = FALSE
    /\ scrollDown = FALSE
    /\ scrollLeft = FALSE
    /\ scrollRight = FALSE
    /\ viewMode \in ViewModes
    /\ lastOp = [op |-> "construct"]
    /\ conv = [stage |-> "idle"]
    /\ mode = "City"
    /\ layerDrawingMode = "AllLevels"
    /\ dpySize = Vec2(DpyW, DpyH)
    /\ InitOther

\* ---------------------------------------------------------------- actions

\* eventOccurred, EVENT_KEY_DOWN with key code k.
KeyDown(k) ==
    /\ scrollUp' = IF k = "UP" THEN TRUE ELSE scrollUp
    /\ scrollDown' = IF k = "DOWN" THEN TRUE ELSE scrollDown
    /\ scrollLeft' = IF k = "LEFT" THEN TRUE ELSE scrollLeft
    /\ scrollRight' = IF k = "RIGHT" THEN TRUE ELSE scrollRight
    /\ selectedTilePosition' =
         CASE k = "s" /\ selectedTilePosition.y < MapY - 1 ->
                [selectedTilePosition EXCEPT !.y = @ + 1]
           [] k = "w" /\ selectedTilePosition.y > 0 ->
                [selectedTilePosition EXCEPT !.y = @ - 1]
           [] k = "a" /\ selectedTilePosition.x > 0 ->
                [selectedTilePosition EXCEPT !.x = @ - 1]
           [] k = "d" /\ selectedTilePosition.x < MapX - 1 ->
                [selectedTilePosition EXCEPT !.x = @ + 1]
           [] k = "r" /\ selectedTilePosition.z < MapZ - 1 ->
                [selectedTilePosition EXCEPT !.z = @ + 1]
           [] k = "f" /\ selectedTilePosition.z > 0 ->
                [selectedTilePosition EXCEPT !.z = @ - 1]
           [] OTHER -> selectedTilePosition
    /\ lastOp' = [op |-> "keyDown", key |-> k]
    /\ UNCHANGED <<otherVars, camVars, conv, envVars>>

\* eventOccurred, EVENT_KEY_UP with key code k.
\* (KeyUpAny: the key-up of an arrow key clears all four flags.)
KeyUpAny(k) ==
    /\ scrollUp' = IF k \in ArrowKeys THEN FALSE ELSE scrollUp
    /\ scrollDown' = IF k \in ArrowKeys THEN FALSE ELSE scrollDown
    /\ scrollLeft' = IF k \in ArrowKeys THEN FALSE ELSE scrollLeft
    /\ scrollRight' = IF k \in ArrowKeys THEN FALSE ELSE scrollRight
    /\ lastOp' = [op |-> "keyUp", key |-> k]
    /\ UNCHANGED <<otherVars, camVars, selectedTilePosition, conv, envVars>>

KeyUp(k) ==
    /\ scrollUp' = IF k = "UP" THEN FALSE ELSE scrollUp
    /\ scrollDown' = IF k = "DOWN" THEN FALSE ELSE scrollDown
    /\ scrollLeft' = IF k = "LEFT" THEN FALSE ELSE scrollLeft
    /\ scrollRight' = IF k = "RIGHT" THEN FALSE ELSE scrollRight
    /\ lastOp' = [op |-> "keyUp", key |-> k]
    /\ UNCHANGED <<otherVars, camVars, selectedTilePosition, conv, envVars>>

\* eventOccurred, EVENT_MOUSE_MOVE at device position p.
MouseMove(p) ==
    /\ selectedTilePosition' =
         ClampedSelection(MouseTile(centerPos, viewMode, currentZLevel, p.x, p.y))
    /\ lastOp' = [op |-> "mouseMove", mouse |-> p]
    /\ UNCHANGED <<otherVars, camVars, scrollVars, conv, envVars>>

\* eventOccurred, EVENT_FINGER_MOVE.
FingerMove(f) ==
    /\ centerPos' = IF f.primary
                     THEN ClampedCenter(FingerNewPos(centerPos, viewMode, f.dx, f.dy))
                     ELSE centerPos
    /\ lastOp' = [op |-> "fingerMove", finger |-> f]
    /\ UNCHANGED <<otherVars, currentZLevel, viewMode, selectedTilePosition, scrollVars, conv, envVars>>

\* render(): the scroll update of the camera, then the pass over the visible
\* tiles from the camera's new centre.  The pass reads the fields and writes
\* none of them, so the state render() leaves determines its calls:
\* RenderPass(centerPos) in a state whose lastOp is "render".
Render ==
    /\ centerPos' = ClampedCenter(RenderNewPos(centerPos, viewMode, scrollUp,
                                               scrollDown, scrollLeft, scrollRight))
    /\ lastOp' = [op |-> "render"]
    /\ UNCHANGED <<otherVars, currentZLevel, viewMode, selectedTilePosition, scrollVars, conv,
                   envVars>>

\* setZLevel(zLevel).
\* (SetZLevelUnclamped: without the clamp; SetZLevelFromZero: clamped to
\* [0, maxZDraw]; SetZLevelCentreOnLevel: the centre's z set to the level
\* itself.)
SetZLevelCentreOnLevel(zLevel) ==
    /\ currentZLevel' = clamp(zLevel, 1, maxZDraw)
    /\ centerPos' = ClampedCenter(Vec3(centerPos.x, centerPos.y,
                                       ToFloat(clamp(zLevel, 1, maxZDraw))))
    /\ lastOp' = [op |-> "setZLevel", zLevel |-> zLevel]
    /\ UNCHANGED <<otherVars, viewMode, selectedTilePosition, scrollVars, conv, envVars>>

SetZLevelUnclamped(zLevel) ==
    /\ currentZLevel' = zLevel
    /\ centerPos' = ClampedCenter(Vec3(centerPos.x, centerPos.y, ToFloat(zLevel - 1)))
    /\ lastOp' = [op |-> "setZLevel", zLevel |-> zLevel]
    /\ UNCHANGED <<otherVars, viewMode, selectedTilePosition, scrollVars, conv, envVars>>

SetZLevelFromZero(zLevel) ==
    /\ currentZLevel' = clamp(zLevel, 0, maxZDraw)
    /\ centerPos' = ClampedCenter(Vec3(centerPos.x, centerPos.y,
                                       ToFloat(clamp(zLevel, 0, maxZDraw) - 1)))
    /\ lastOp' = [op |-> "setZLevel", zLevel |-> zLevel]
    /\ UNCHANGED <<otherVars, viewMode, selectedTilePosition, scrollVars, conv, envVars>>

SetZLevel(zLevel) ==
    /\ currentZLevel' = clamp(zLevel, 1, maxZDraw)
    /\ centerPos' = ClampedCenter(Vec3(centerPos.x, centerPos.y,
                                       ToFloat(clamp(zLevel, 1, maxZDraw) - 1)))
    /\ lastOp' = [op |-> "setZLevel", zLevel |-> zLevel]
    /\ UNCHANGED <<otherVars, viewMode, selectedTilePosition, scrollVars, conv, envVars>>

\* setViewMode(newMode).
\* (SetViewModeRecenter: a mode change that also resets the camera centre.)
SetViewModeRecenter(newMode) ==
    /\ viewMode' = newMode
    /\ centerPos' = IF newMode = viewMode THEN centerPos
                     ELSE Vec3(0, 0, centerPos.z)
    /\ lastOp' = [op |-> "setViewMode", newMode |-> newMode]
    /\ UNCHANGED <<otherVars, currentZLevel, selectedTilePosition, scrollVars, conv, envVars>>

SetViewMode(newMode) ==
    /\ viewMode' = newMode
    /\ lastOp' = [op |-> "setViewMode", newMode |-> newMode]
    /\ UNCHANGED <<otherVars, centerPos, currentZLevel, selectedTilePosition, scrollVars, conv, envVars>>

\* setScreenCenterTile(Vec3<float> center).
SetScreenCenterTile(center) ==
    /\ centerPos' = ClampedCenter(center)
    /\ lastOp' = [op |-> "setScreenCenterTile", center |-> center]
    /\ UNCHANGED <<otherVars, currentZLevel, viewMode, selectedTilePosition, scrollVars, conv, envVars>>

\* setScreenCenterTile(Vec2<float> center): z is currentZLevel.
\* (SetScreenCenterTile2OnPlane: z is currentZLevel - 1.)
SetScreenCenterTile2OnPlane(center) ==
    /\ centerPos' = ClampedCenter(Vec3(center.x, center.y,
                                       ToFloat(currentZLevel - 1)))
    /\ lastOp' = [op |-> "setScreenCenterTile2", center |-> center]
    /\ UNCHANGED <<otherVars, currentZLevel, viewMode, selectedTilePosition, scrollVars, conv, envVars>>

SetScreenCenterTile2(center) ==
    /\ centerPos' = ClampedCenter(Vec3(center.x, center.y, ToFloat(currentZLevel)))
    /\ lastOp' = [op |-> "setScreenCenterTile2", center |-> center]
    /\ UNCHANGED <<otherVars, currentZLevel, viewMode, selectedTilePosition, scrollVars, conv, envVars>>

\* setLayerDrawingMode(newLayerMode): taken in Battle mode only.
\* (SetLayerDrawingModeAlways: without the test of the mode.)
SetLayerDrawingModeAlways(newLayerMode) ==
    /\ layerDrawingMode' = newLayerMode
    /\ lastOp' = [op |-> "setLayerDrawingMode", newLayerMode |-> newLayerMode]
    /\ UNCHANGED <<otherVars, camVars, selectedTilePosition, scrollVars, conv, mode, dpySize>>

SetLayerDrawingMode(newLayerMode) ==
    /\ layerDrawingMode' = IF mode = "Battle" THEN newLayerMode
                            ELSE layerDrawingMode
    /\ lastOp' = [op |-> "setLayerDrawingMode", newLayerMode |-> newLayerMode]
    /\ UNCHANGED <<otherVars, camVars, selectedTilePosition, scrollVars, conv, mode, dpySize>>

\* setSelectedTilePosition(newPosition).
SetSelectedTilePosition(newPosition) ==
    /\ selectedTilePosition' = ClampedSelection(newPosition)
    /\ lastOp' = [op |-> "setSelectedTilePosition", newPosition |-> newPosition]
    /\ UNCHANGED <<otherVars, camVars, scrollVars, conv, envVars>>

\* getZLevel() and getSelectedTilePosition().
getZLevel == currentZLevel
getSelectedTilePosition == selectedTilePosition

\* A coordinate conversion: a tile coordinate is projected to the screen ...
ConvToScreen ==
    /\ conv.stage = "tile"
    /\ conv' = [conv EXCEPT !.stage = "screen",
                            !.screen = tileToScreenCoords(conv.tile, conv.mode)]
    /\ UNCHANGED <<otherVars, camVars, selectedTilePosition, scrollVars, lastOp, envVars>>

\* ... and the screen position is taken back to the tile's z plane.
ConvToTile ==
    /\ conv.stage = "screen"
    /\ conv' = [conv EXCEPT !.stage = "back",
                            !.back = screenToTileCoords(conv.screen, conv.tile.z,
                                                        conv.mode)]
    /\ UNCHANGED <<otherVars, camVars, selectedTilePosition, scrollVars, lastOp, envVars>>

\* The next conversion starts from tile coordinate t in view mode m.
ConvStart(t, m) ==
    /\ conv.stage = "back"
    /\ conv' = [back |-> Vec3(0, 0, 0), mode |-> m, screen |-> Vec2(0, 0),
                stage |-> "tile", tile |-> t]
    /\ UNCHANGED <<otherVars, camVars, selectedTilePosition, scrollVars, lastOp, envVars>>

\* --------------------------------------------------------- specifications

\* The camera: scrolling, dragging, z-level, view mode and centre setters.
\* SaveManager::newSaveGame(name, gameState): rands are the values rand()
\* returns in the retry loop, data the archive of gameState.
\* (NewSaveGameNoCheck: the default path is used whether it exists or not.)
NewSaveGameNoCheck(name, rands, data, serialized, e) ==
    LET defaultPath == createSavePath(<<"save_", name>>)
        end == saveGame(files, defaultPath, data, serialized, e)
    IN  /\ files' = end.files
        /\ lastOp' = [ op |-> "newSaveGame", name |-> name,
                       retried |-> <<>>,
                       path |-> defaultPath, saveGameCalled |-> TRUE,
                       data |-> data, result |-> end.result,
                       write |-> end.write, raised |-> end.raised ]
        /\ UNCHANGED <<tileViewVars, menuVars, checkBoxVars, threadPool>>

NewSaveGame(name, rands, data, serialized, e) ==
    LET defaultPath == createSavePath(<<"save_", name>>)
        retryPaths == [ i \in 1 .. MaxRetries |->
                          createSavePath(<<"save_", name, rands[i]>>) ]
        found == FirstFree(files, retryPaths)
        exists == files[defaultPath] # Absent
        foundFreePath == found # 0
        path == IF ~exists THEN defaultPath
                ELSE IF foundFreePath THEN retryPaths[found]
                ELSE retryPaths[MaxRetries]
        called == ~exists \/ foundFreePath
        end == IF called THEN saveGame(files, path, data, serialized, e)
               ELSE CallEnd(files, "false", "none", "none")
    IN  /\ files' = end.files
        /\ lastOp' = [ op |-> "newSaveGame", name |-> name,
                       retried |-> IF exists THEN retryPaths ELSE <<>>,
                       path |-> path, saveGameCalled |-> called,
                       data |-> data, result |-> end.result,
                       write |-> end.write, raised |-> end.raised ]
        /\ UNCHANGED <<tileViewVars, menuVars, checkBoxVars, threadPool>>

\* SaveManager::overrideGame(metadata, gameState): path is metadata.getFile().
OverrideGame(path, data, serialized, e) ==
    LET end == saveGame(files, path, data, serialized, e)
    IN  /\ files' = end.files
        /\ lastOp' = [ op |-> "overrideGame", path |-> path,
                       saveGameCalled |-> TRUE,
                       data |-> data, result |-> end.result,
                       write |-> end.write, raised |-> end.raised ]
        /\ UNCHANGED <<tileViewVars, menuVars, checkBoxVars, threadPool>>

\* SaveManager::specialSaveGame(type, gameState).
\* (SpecialSaveGameAnyType: without the test for Manual.)
SpecialSaveGameAnyType(type, data, serialized, e) ==
    LET known == type \in DOMAIN saveTypeNames
        path == IF known THEN createSavePath(saveTypeNames[type]) ELSE <<>>
        end == IF known THEN saveGame(files, path, data, serialized, e)
               ELSE CallEnd(files, "false", "none", "none")
    IN  /\ files' = end.files
        /\ lastOp' = [ op |-> "specialSaveGame", type |-> type,
                       path |-> path, saveGameCalled |-> known,
                       data |-> data, result |-> end.result,
                       write |-> end.write, raised |-> end.raised ]
        /\ UNCHANGED <<tileViewVars, menuVars, checkBoxVars, threadPool>>

SpecialSaveGame(type, data, serialized, e) ==
    LET known == type # "Manual" /\ type \in DOMAIN saveTypeNames
        path == IF known THEN createSavePath(saveTypeNames[type]) ELSE <<>>
        end == IF known THEN saveGame(files, path, data, serialized, e)
               ELSE CallEnd(files, "false", "none", "none")
    IN  /\ files' = end.files
        /\ lastOp' = [ op |-> "specialSaveGame", type |-> type,
                       path |-> path, saveGameCalled |-> known,
                       data |-> data, result |-> end.result,
                       write |-> end.write, raised |-> end.raised ]
        /\ UNCHANGED <<tileViewVars, menuVars, checkBoxVars, threadPool>>

\* SaveManager::loadSpecialSave(type): a deferred future of nullptr for
\* Manual and for a type without a name, else loadGame(createSavePath(name)),
\* which enqueues the load task and returns its future.
LoadSpecialSave(type) ==
    LET known == type # "Manual" /\ type \in DOMAIN saveTypeNames
        path == IF known THEN createSavePath(saveTypeNames[type]) ELSE <<>>
    IN  /\ known => Len(threadPool) < MaxTasks
        /\ threadPool' = IF known THEN Append(threadPool, path) ELSE threadPool
        /\ lastOp' = [ op |-> "loadSpecialSave", type |-> type, path |-> path,
                       future |-> IF known THEN "task" ELSE "null" ]
        /\ UNCHANGED <<tileViewVars, menuVars, checkBoxVars, files>>

\* The thread pool runs the load task at its head: state->loadGame(path)
\* yields a game state if the file is a complete archive, else nullptr.
RunLoadTask ==
    /\ threadPool # <<>>
    /\ threadPool' = Tail(threadPool)
    /\ lastOp' = [ op |-> "loadTask", path |-> Head(threadPool),
                   loaded |-> files[Head(threadPool)] \in SaveData ]
    /\ UNCHANGED <<tileViewVars, menuVars, checkBoxVars, files>>

\* MainMenu::EventOccurred(e). The history keeps e if it is one of the events
\* the menu acts on.
MenuEventOccurred(e) ==
    /\ stageCmd' = MenuHandle(stageCmd, e)
    /\ pendingEvent' = IF e \in MenuCommandEvents THEN e ELSE pendingEvent
    /\ lastOp' = [ op |-> "menuEvent", event |-> e ]
    /\ UNCHANGED <<tileViewVars, saveVars, checkBoxVars>>

MenuUpdateNoReset ==
    /\ lastOp' = [ op |-> "menuUpdate", cmd |-> stageCmd ]
    /\ pendingEvent' = NoEvent
    /\ UNCHANGED <<tileViewVars, saveVars, checkBoxVars, stageCmd>>

\* MainMenu::Update(cmd): *cmd = stageCmd; stageCmd = StageCmd().
MenuUpdate ==
    /\ lastOp' = [ op |-> "menuUpdate", cmd |-> stageCmd ]
    /\ stageCmd' = StageCmd
    /\ pendingEvent' = NoEvent
    /\ UNCHANGED <<tileViewVars, saveVars, checkBoxVars>>

\* CheckBox::EventOccured(e): the click sound on MouseDown, and on MouseClick
\* the toggle of Checked and the push of one CheckBoxChange event. The
\* history counts the MouseClick events raised by the box itself.
CheckBoxEventOccured(e) ==
    /\ CheckBoxToggles(e) => Len(pushedEvents) < MaxClicks
    /\ Checked' = IF CheckBoxToggles(e) THEN ~Checked ELSE Checked
    /\ pushedEvents' = IF CheckBoxToggles(e)
                       THEN Append(pushedEvents, CheckBoxChange(e))
                       ELSE pushedEvents
    /\ ownClicks' = IF e = FormEvent("MouseClick", This)
                    THEN ownClicks + 1 ELSE ownClicks
    /\ lastOp' = [ op |-> "checkBoxEvent", event |-> e,
                   sound |-> CheckBoxSounds(e) ]
    /\ UNCHANGED <<tileViewVars, saveVars, menuVars>>

Next ==
    \/ \E k \in ArrowKeys \cup OtherKeys : KeyDown(k)
    \/ \E k \in ArrowKeys \cup OtherKeys : KeyUp(k)
    \/ \E f \in FingerInputs : FingerMove(f)
    \/ Render
    \/ \E v \in ZInputs : SetZLevel(v)
    \/ \E m \in ViewModes : SetViewMode(m)
    \/ \E c \in CenterInputs : SetScreenCenterTile(c)
    \/ \E c \in Center2Inputs : SetScreenCenterTile2(c)

Spec == Init /\ [][Next]_vars

\* The selected tile: selection keys, pointer moves and the setter, over a
\* camera moved by the setters.
NextSel ==
    \/ \E k \in SelectKeys : KeyDown(k)
    \/ \E p \in MouseInputs : MouseMove(p)
    \/ \E p \in SelectInputs : SetSelectedTilePosition(p)
    \/ \E v \in ZInputs : SetZLevel(v)
    \/ \E m \in ViewModes : SetViewMode(m)
    \/ \E c \in CenterInputs : SetScreenCenterTile(c)

SpecSel == Init /\ [][NextSel]_vars

\* The coordinate transforms alone: tile -> screen -> tile for every tile
\* coordinate of TileInputs in both view modes.
InitConv ==
    /\ centerPos = Vec3(0, 0, 0)
    /\ currentZLevel = 1
    /\ selectedTilePosition = Vec3(0, 0, 0)
    /\ scrollUp = FALSE
    /\ scrollDown = FALSE
    /\ scrollLeft = FALSE
    /\ scrollRight = FALSE
    /\ viewMode = "Isometric"
    /\ lastOp = [op |-> "construct"]
    /\ mode = "City"
    /\ layerDrawingMode = "AllLevels"
    /\ dpySize = Vec2(DpyW, DpyH)
    /\ InitOther
    /\ conv \in { [back |-> Vec3(0, 0, 0), mode |-> m, screen |-> Vec2(0, 0),
                   stage |-> "tile", tile |-> t] :
                     t \in TileInputs, m \in ViewModes }

NextConv ==
    \/ ConvToScreen
    \/ ConvToTile
    \/ \E t \in TileInputs, m \in ViewModes : ConvStart(t, m)

SpecConv == InitConv /\ [][NextConv]_vars

\* The render pass: a view constructed in City or Battle mode, on the large
\* or the small display, taken by its setters to a centre, z-level, selected
\* tile, view mode and layer drawing mode, and rendered.
DrawCenterInputs ==
    { Vec3(Q, Q, 0),
      Vec3(Q, Q \div 2, ToFloat(MapZ)),
      Vec3(ToFloat(MapX + 1), ToFloat(MapY), 0) }

DrawSelectInputs ==
    { Vec3(0, 1, 1), Vec3(1, 1, 0), Vec3(1, 0, 1), Vec3(0, 0, MapZ) }

InitDraw ==
    /\ centerPos = Vec3(0, 0, 0)
    /\ currentZLevel = 1
    /\ selectedTilePosition = Vec3(0, 0, 0)
    /\ scrollUp = FALSE
    /\ scrollDown = FALSE
    /\ scrollLeft = FALSE
    /\ scrollRight = FALSE
    /\ viewMode \in ViewModes
    /\ lastOp = [op |-> "construct"]
    /\ conv = [stage |-> "idle"]
    /\ mode \in Modes
    /\ layerDrawingMode =
          IF mode = "Battle" THEN "UpToCurrentLevel" ELSE "AllLevels"
    /\ dpySize \in {Vec2(DpyW, DpyH), Vec2(SmallDpy, SmallDpy)}
    /\ InitOther

NextDraw ==
    \/ Render
    \/ \E v \in 0 .. maxZDraw : SetZLevel(v)
    \/ \E m \in ViewModes : SetViewMode(m)
    \/ \E l \in LayerDrawingModes : SetLayerDrawingMode(l)
    \/ \E p \in DrawSelectInputs : SetSelectedTilePosition(p)
    \/ \E c \in DrawCenterInputs : SetScreenCenterTile(c)

SpecDraw == InitDraw /\ [][NextDraw]_vars

\* A view whose view mode is no enumerator of TileViewMode (the constructor
\* and setViewMode store whatever value they are given): arrow keys, render
\* ticks and the centre setter.
InitUnknown ==
    /\ centerPos = Vec3(0, 0, 0)
    /\ currentZLevel = 1
    /\ selectedTilePosition = Vec3(0, 0, 0)
    /\ scrollUp = FALSE
    /\ scrollDown = FALSE
    /\ scrollLeft = FALSE
    /\ scrollRight = FALSE
    /\ viewMode = UnknownViewMode
    /\ lastOp = [op |-> "construct"]
    /\ conv = [stage |-> "idle"]
    /\ mode \in Modes
    /\ layerDrawingMode =
          IF mode = "Battle" THEN "UpToCurrentLevel" ELSE "AllLevels"
    /\ dpySize \in {Vec2(DpyW, DpyH), Vec2(SmallDpy, SmallDpy)}
    /\ InitOther

NextUnknown ==
    \/ \E k \in ArrowKeys : KeyDown(k)
    \/ \E k \in ArrowKeys : KeyUp(k)
    \/ Render
    \/ \E c \in CenterInputs : SetScreenCenterTile(c)
    \/ SetViewMode(UnknownViewMode)

SpecUnknown == InitUnknown /\ [][NextUnknown]_vars

\* The save manager over an empty save directory.
SaveTypeInputs == SaveTypes \cup {"Other"}
RandDraws ==
    { [ i \in 1 .. MaxRetries |-> "1" ],
      [ i \in 1 .. MaxRetries |-> "2" ],
      [ i \in 1 .. MaxRetries |-> IF i = 1 THEN "1" ELSE "2" ],
      [ i \in 1 .. MaxRetries |-> IF i = MaxRetries THEN "2" ELSE "1" ] }
OverridePaths == { createSavePath(<<"save_", n>>) : n \in SaveNames }

InitSave == Init /\ viewMode = "Isometric"

\* New saves, one after the other.
NextNewSave ==
    \E n \in SaveNames, r \in RandDraws, d \in SaveData, s \in BOOLEAN,
       e \in EnvsNoFile : NewSaveGame(n, r, d, s, e)

SpecNewSave == InitSave /\ [][NextNewSave]_vars

\* Saves written again and again to the path of one save.
NextBackup ==
    \E p \in OverridePaths, d \in SaveData, s \in BOOLEAN, e \in Envs :
       OverrideGame(p, d, s, e)

SpecBackup == InitSave /\ [][NextBackup]_vars

\* The special save slots: quick and automatic saves and their loads.
NextSpecial ==
    \/ \E t \in SaveTypeInputs, d \in SaveData, s \in BOOLEAN, e \in EnvsOneUuid :
          SpecialSaveGame(t, d, s, e)
    \/ \E t \in SaveTypeInputs : LoadSpecialSave(t)
    \/ RunLoadTask

SpecSpecial == InitSave /\ [][NextSpecial]_vars

\* The events of eventOccurred, of every kind, and render ticks.
EventMouseInputs == { Vec2(0, 0), Vec2(DpyW - 1, DpyH - 1) }
EventFingerInputs ==
    { [dx |-> 1, dy |-> 0, primary |-> TRUE],
      [dx |-> 0, dy |-> -1, primary |-> FALSE] }

NextEvents ==
    \/ \E k \in ArrowKeys \cup SelectKeys \cup OtherKeys : KeyDown(k)
    \/ \E k \in ArrowKeys \cup SelectKeys \cup OtherKeys : KeyUp(k)
    \/ \E p \in EventMouseInputs : MouseMove(p)
    \/ \E f \in EventFingerInputs : FingerMove(f)
    \/ Render

SpecEvents == Init /\ [][NextEvents]_vars

\* The form events handed to the main menu and to a check box, and the
\* updates of the menu, in any order.
MenuEvents ==
    { KeyEvent(t, k) : t \in { "EVENT_KEY_DOWN", "EVENT_KEY_UP" }, k \in KeyCodes }
    \cup { FormEvent(f, b) : f \in { "ButtonClick", "MouseDown" },
                             b \in ButtonNames }
    \cup { OtherEvent }
CheckBoxEvents ==
    { FormEvent(f, b) : f \in FormEventTypes, b \in { This, "BUTTON_QUIT" } }
    \cup { KeyEvent("EVENT_KEY_DOWN", "SDLK_RETURN"), OtherEvent }

InitForms == Init /\ viewMode = "Isometric"

NextForms ==
    \/ \E e \in MenuEvents : MenuEventOccurred(e)
    \/ MenuUpdate
    \/ \E e \in CheckBoxEvents : CheckBoxEventOccured(e)

SpecForms == InitForms /\ [][NextForms]_vars

\* ----------------------------------------------------------------- claims

\* The value an axis takes when v is clamped to [lo, hi].
AxisClamp(v, lo, hi) == IF v < lo THEN lo ELSE IF v > hi THEN hi ELSE v

OnlyFlag(f) ==
    /\ scrollUp = (f = "UP")
    /\ scrollDown = (f = "DOWN")
    /\ scrollLeft = (f = "LEFT")
    /\ scrollRight = (f = "RIGHT")

\* C1: in every reachable state of the camera (key events, finger moves,
\* render ticks, setZLevel, setViewMode, setScreenCenterTile) the camera
\* centre satisfies 0 <= centre.axis <= mapSize.axis on x, y and z.
C1_CenterInBounds ==
    /\ 0 <= centerPos.x /\ centerPos.x <= ToFloat(MapX)
    /\ 0 <= centerPos.y /\ centerPos.y <= ToFloat(MapY)
    /\ 0 <= centerPos.z /\ centerPos.z <= ToFloat(MapZ)

\* A render tick in Strategy mode with only scrollRight set has pushed the
\* centre against the upper x bound.
C1_Witness ==
    /\ lastOp.op = "render"
    /\ viewMode = "Strategy"
    /\ OnlyFlag("RIGHT")
    /\ centerPos.x = ToFloat(MapX)
    /\ centerPos.y = Q \div 2

\* C2: on a map with every dimension >= 1, in every state reached by
\* setSelectedTilePosition calls, pointer moves and w/a/s/d/r/f key-downs,
\* the selected tile satisfies 0 <= selected.axis <= mapSize.axis - 1.
C2_SelectedInBounds ==
    /\ 0 <= selectedTilePosition.x /\ selectedTilePosition.x <= MapX - 1
    /\ 0 <= selectedTilePosition.y /\ selectedTilePosition.y <= MapY - 1
    /\ 0 <= selectedTilePosition.z /\ selectedTilePosition.z <= MapZ - 1

\* The "d" key was pressed with the selection on the last column, "s" and "r"
\* having taken it to the last row and level before.
C2_Witness ==
    /\ lastOp.op = "keyDown" /\ lastOp.key = "d"
    /\ selectedTilePosition = Vec3(MapX - 1, MapY - 1, MapZ - 1)

\* C3: on a map with size.z >= 1 the current z-level is within
\* [1, maxZDraw] in every reachable state.
C3_ZLevelInRange == 1 <= currentZLevel /\ currentZLevel <= maxZDraw

\* setZLevel was called with a value above maxZDraw.
C3_Witness ==
    /\ lastOp.op = "setZLevel"
    /\ lastOp.zLevel > maxZDraw
    /\ currentZLevel = maxZDraw

\* C4: after setZLevel(v), getZLevel returns 1 if v < 1, maxZDraw if
\* v > maxZDraw, and v otherwise.
C4_SetZLevelClamps ==
    lastOp.op = "setZLevel" =>
        getZLevel = (IF lastOp.zLevel < 1 THEN 1
                     ELSE IF lastOp.zLevel > maxZDraw THEN maxZDraw
                     ELSE lastOp.zLevel)

\* setZLevel was called with a value below 1.
C4_Witness ==
    /\ lastOp.op = "setZLevel"
    /\ lastOp.zLevel < 1
    /\ getZLevel = 1

\* C5: setScreenCenterTile(c) leaves the camera centre at c clamped per axis
\* to [0, mapSize.axis], whatever c is.
C5_SetCenterClamps ==
    lastOp.op = "setScreenCenterTile" =>
        /\ centerPos.x = AxisClamp(lastOp.center.x, 0, ToFloat(MapX))
        /\ centerPos.y = AxisClamp(lastOp.center.y, 0, ToFloat(MapY))
        /\ centerPos.z = AxisClamp(lastOp.center.z, 0, ToFloat(MapZ))

\* setScreenCenterTile((-5, -5, 0)) has left the centre at (0, 0, 0).
C5_Witness ==
    /\ lastOp.op = "setScreenCenterTile" /\ lastOp.center = Vec3(-5 * Q, -5 * Q, 0)
    /\ centerPos = Vec3(0, 0, 0)

\* C6: on a map with every dimension >= 1, after setSelectedTilePosition(p)
\* getSelectedTilePosition returns p clamped per axis to
\* [0, mapSize.axis - 1].
C6_SetSelectedClamps ==
    lastOp.op = "setSelectedTilePosition" =>
        /\ getSelectedTilePosition.x = AxisClamp(lastOp.newPosition.x, 0, MapX - 1)
        /\ getSelectedTilePosition.y = AxisClamp(lastOp.newPosition.y, 0, MapY - 1)
        /\ getSelectedTilePosition.z = AxisClamp(lastOp.newPosition.z, 0, MapZ - 1)

\* setSelectedTilePosition((20, 20, 1)) has selected the last column and row
\* on level 1.
C6_Witness ==
    /\ lastOp.op = "setSelectedTilePosition" /\ lastOp.newPosition = Vec3(20, 20, 1)
    /\ getSelectedTilePosition = Vec3(MapX - 1, MapY - 1, 1)

\* The centre a Strategy-mode render tick is to produce from centre c: 2.0
\* per set flag on the flag's axis, then the clamp to the map.
StrategyScrolled(c) ==
    LET dx == (IF scrollRight THEN 2 * Q ELSE 0) - (IF scrollLeft THEN 2 * Q ELSE 0)
        dy == (IF scrollDown THEN 2 * Q ELSE 0) - (IF scrollUp THEN 2 * Q ELSE 0)
    IN  Vec3(AxisClamp(c.x + dx, 0, ToFloat(MapX)),
             AxisClamp(c.y + dy, 0, ToFloat(MapY)), c.z)

\* C7: setViewMode leaves the camera centre, the z-level, the selected tile
\* and the scroll flags unchanged, and the render tick that follows a switch
\* to Strategy moves the centre by the strategy scroll speed (2.0 on the axis
\* of each set flag, clamped to the map), not by the isometric speed.
C7_ViewModeSwitch ==
    [][ /\ lastOp'.op = "setViewMode" =>
              /\ centerPos' = centerPos
              /\ currentZLevel' = currentZLevel
              /\ selectedTilePosition' = selectedTilePosition
              /\ UNCHANGED scrollVars
        /\ ( /\ lastOp.op = "setViewMode"
             /\ lastOp.newMode = "Strategy"
             /\ lastOp'.op = "render" ) =>
              centerPos' = StrategyScrolled(centerPos) ]_vars

\* The view was switched to Strategy with only scrollRight set and the
\* centre at (0, 0.5, 0), where the next tick moves x by exactly 2.0.
C7_Witness ==
    /\ lastOp.op = "setViewMode" /\ lastOp.newMode = "Strategy"
    /\ OnlyFlag("RIGHT")
    /\ centerPos = Vec3(0, Q \div 2, 0)

\* C8: for every tile coordinate t within the map bounds, in both view
\* modes, tileToScreenCoords followed by screenToTileCoords on the plane t.z
\* gives t back.
C8_RoundTrip == conv.stage = "back" => conv.back = conv.tile

\* An isometric round trip of a tile coordinate off the ground plane and off
\* the diagonal has completed.
C8_Witness ==
    /\ conv.stage = "back"
    /\ conv.mode = "Isometric"
    /\ conv.tile = Vec3(Q \div 2, ToFloat(MapY), ToFloat(MapZ))
    /\ conv.screen # Vec2(0, 0)

\* The exact value of dpySize / 2 - tileToScreenCoords(centerPos), fixed point.
ExactOffset ==
    LET s == tileToScreenCoords(centerPos, viewMode)
    IN  Vec2(ToFloat(dpySize.x \div 2) - s.x, ToFloat(dpySize.y \div 2) - s.y)

Abs(a) == IF a < 0 THEN -a ELSE a

\* C9 as stated: in every reachable state getScreenOffset equals
\* dpySize / 2 - tileToScreenCoords(centre) on each axis.
C9_OffsetExact ==
    /\ ToFloat(getScreenOffset.x) = ExactOffset.x
    /\ ToFloat(getScreenOffset.y) = ExactOffset.y

\* C9, amended: getScreenOffset is dpySize / 2 - tileToScreenCoords(centre)
\* converted to int on each axis: equal to it when that is a whole number of
\* pixels, and less than one pixel away from it otherwise.
C9_OffsetWithinPixel ==
    /\ Abs(ToFloat(getScreenOffset.x) - ExactOffset.x) < Q
    /\ Abs(ToFloat(getScreenOffset.y) - ExactOffset.y) < Q
    /\ ExactOffset.x % Q = 0 => ToFloat(getScreenOffset.x) = ExactOffset.x
    /\ ExactOffset.y % Q = 0 => ToFloat(getScreenOffset.y) = ExactOffset.y

\* The camera was dragged to a centre whose projection falls between two
\* pixel rows.
C9_Witness ==
    /\ lastOp.op = "fingerMove"
    /\ ExactOffset.y % Q # 0
    /\ centerPos.x > 0
    /\ centerPos.z > 0

\* The tile under the pointer p: the device position, its y adjusted by
\* + 4 - 20, less the screen offset, taken to the plane currentZLevel - 1.
TileUnderPointer(p) ==
    LET s == Vec2(ToFloat(p.x - getScreenOffset.x),
                  ToFloat(p.y + 4 - 20 - getScreenOffset.y))
        t == screenToTileCoords(s, ToFloat(currentZLevel - 1), viewMode)
    IN  Vec3(TruncToInt(t.x), TruncToInt(t.y), TruncToInt(t.z))

\* C10: a pointer move selects the tile under the pointer on the plane
\* currentZLevel - 1, clamped to the map; the selected z is then
\* currentZLevel - 1, and the camera centre and the z-level are unchanged.
C10_PointerSelects ==
    [][ lastOp'.op = "mouseMove" =>
          /\ selectedTilePosition'.x =
                AxisClamp(TileUnderPointer(lastOp'.mouse).x, 0, MapX - 1)
          /\ selectedTilePosition'.y =
                AxisClamp(TileUnderPointer(lastOp'.mouse).y, 0, MapY - 1)
          /\ selectedTilePosition'.z = currentZLevel - 1
          /\ centerPos' = centerPos
          /\ currentZLevel' = currentZLevel ]_vars

\* A pointer move on level 2 has selected tile (1, 1, 1), which lies under
\* the pointer without any clamping.
C10_Witness ==
    /\ lastOp.op = "mouseMove"
    /\ currentZLevel = 2
    /\ selectedTilePosition = Vec3(1, 1, 1)
    /\ TileUnderPointer(lastOp.mouse) = selectedTilePosition

\* The camera movement a finger move by (dx, dy) pixels asks for, in tiles:
\* (dx/isoX + dy/isoY, dy/isoY - dx/isoX) in Isometric view and
\* (dx/stratX, dy/stratY) in Strategy view.
DragDelta(f, m) ==
    IF m = "Isometric"
    THEN Vec2((f.dx * Q) \div IsoTileX + (f.dy * Q) \div IsoTileY,
              (f.dy * Q) \div IsoTileY - (f.dx * Q) \div IsoTileX)
    ELSE Vec2((f.dx * Q) \div StratTileX, (f.dy * Q) \div StratTileY)

\* C11: a finger move never changes the selected tile (nor the z-level, the
\* view mode or the scroll flags); a primary one replaces the camera centre
\* by centre - delta clamped to the map, delta being the move in the basis
\* of the view mode with a zero z part; a non-primary one changes nothing.
C11_FingerMovePans ==
    [][ lastOp'.op = "fingerMove" =>
          /\ selectedTilePosition' = selectedTilePosition
          /\ currentZLevel' = currentZLevel
          /\ viewMode' = viewMode
          /\ UNCHANGED scrollVars
          /\ IF lastOp'.finger.primary
             THEN /\ centerPos'.x =
                       AxisClamp(centerPos.x - DragDelta(lastOp'.finger, viewMode).x,
                                 0, ToFloat(MapX))
                  /\ centerPos'.y =
                       AxisClamp(centerPos.y - DragDelta(lastOp'.finger, viewMode).y,
                                 0, ToFloat(MapY))
                  /\ centerPos'.z = centerPos.z
             ELSE centerPos' = centerPos ]_vars

\* A primary drag by (3, -2) pixels in Isometric view has left the centre at
\* (1.5, 2, 1), where (1, 1, 1) less the delta (-0.5, -3.5), clamped, is.
C11_Witness ==
    /\ lastOp.op = "fingerMove"
    /\ lastOp.finger = [dx |-> 3, dy |-> -2, primary |-> TRUE]
    /\ viewMode = "Isometric"
    /\ centerPos = Vec3(Q + Q \div 2, ToFloat(MapY), Q)

\* C12: a render tick in a view mode that is neither Isometric nor Strategy
\* leaves the camera centre where it was, whatever the scroll flags are, and
\* its pass over the tiles runs to its end.
C12_UnknownModeNoScroll ==
    /\ [][ (lastOp'.op = "render" /\ viewMode \notin ViewModes) =>
              centerPos' = centerPos ]_vars
    /\ []( (lastOp.op = "render" /\ viewMode \notin ViewModes) =>
              RenderPass(centerPos).completed )

\* A tick in an unknown view mode with scrollRight and scrollDown set, the
\* centre off the map's edges, has made a pass over the tiles.
C12_Witness ==
    /\ lastOp.op = "render"
    /\ viewMode \notin ViewModes
    /\ scrollRight /\ scrollDown /\ ~scrollLeft /\ ~scrollUp
    /\ centerPos = Vec3(Q \div 2, Q \div 2, Q)
    /\ LET pass == RenderPass(centerPos)
       IN  /\ pass.completed
           /\ \E i \in 1 .. Len(pass.calls) : pass.calls[i].call = "drawObject"

\* Whether the last operation is a render(), the calls of its pass, and the
\* calls of one kind among calls, by their positions.
Rendered == lastOp.op = "render"
PassCalls == RenderCalls(centerPos)
CallsOf(calls, kind) == { i \in 1 .. Len(calls) : calls[i].call = kind }

\* The draw of a comes before that of b in the order of (z-level, layer,
\* tile y, tile x, position in the list).
DrawnBefore(a, b) ==
    \/ a.z < b.z
    \/ a.z = b.z /\ a.layer < b.layer
    \/ a.z = b.z /\ a.layer = b.layer /\ a.y < b.y
    \/ a.z = b.z /\ a.layer = b.layer /\ a.y = b.y /\ a.x < b.x
    \/ a.z = b.z /\ a.layer = b.layer /\ a.y = b.y /\ a.x = b.x /\ a.idx < b.idx

\* C13: within one render pass the object draws are made in lexicographic
\* order of (z-level, layer, tile y, tile x, position in the tile's list):
\* of two draws, the one made first has the smaller key.
C13_DrawOrder ==
    LET calls == PassCalls IN
    Rendered =>
        \A i, j \in CallsOf(calls, "drawObject") :
            i < j => DrawnBefore(calls[i], calls[j])

\* A pass has drawn an object of layer 1 of tile (1, 0) on level 0 before an
\* object of layer 0 of tile (0, 0) on level 1: the level decides before the
\* layer and the tile do.
C13_Witness ==
    LET calls == PassCalls IN
    /\ Rendered
    /\ \E i, j \in CallsOf(calls, "drawObject") :
          /\ i < j
          /\ calls[i].z = 0 /\ calls[i].layer = 1
          /\ calls[i].x = 1 /\ calls[i].y = 0
          /\ calls[j].z = 1 /\ calls[j].layer = 0
          /\ calls[j].x = 0 /\ calls[j].y = 0

\* The z-levels a pass goes over, and those of them on which the selected
\* tile column is highlighted: in Battle mode and Isometric view, the levels
\* not above the selected tile, when the column is in the visible rectangle.
PassLevels(calls) == { calls[i].z : i \in CallsOf(calls, "level") }

SelectedVisible ==
    LET rect == VisibleRect(centerPos, viewMode)
    IN  /\ rect.minX <= selectedTilePosition.x
        /\ selectedTilePosition.x < rect.maxX
        /\ rect.minY <= selectedTilePosition.y
        /\ selectedTilePosition.y < rect.maxY

HighlightedLevels(calls) ==
    IF mode = "Battle" /\ viewMode = "Isometric" /\ SelectedVisible
    THEN { z \in PassLevels(calls) : z <= selectedTilePosition.z }
    ELSE {}

\* The layer-0 list of the selected tile column's tile on level z, and the
\* positions in the pass of the draws of its objects.
SelectedList(z) ==
    tileMap[<<selectedTilePosition.x, selectedTilePosition.y, z>>].drawnObjects[0]

SelectedDraws(calls, z) ==
    { i \in CallsOf(calls, "drawObject") :
        /\ calls[i].z = z /\ calls[i].layer = 0
        /\ calls[i].x = selectedTilePosition.x
        /\ calls[i].y = selectedTilePosition.y }

\* C14: in Battle mode and Isometric view, on every level on which the
\* selected tile is highlighted the back sprite is drawn exactly once,
\* immediately before the first object of the tile's layer-0 list that is
\* not Ground, or after all the list's objects when it has none; and the
\* front sprite is drawn exactly once, after all these objects and after
\* the back sprite.
C14_HighlightPlacement ==
    LET calls == PassCalls IN
    (Rendered /\ mode = "Battle" /\ viewMode = "Isometric") =>
        \A z \in HighlightedLevels(calls) :
            LET backs == { i \in CallsOf(calls, "drawBack") : calls[i].z = z }
                fronts == { i \in CallsOf(calls, "drawFront") : calls[i].z = z }
                objs == SelectedList(z)
                nonGround == { k \in 1 .. Len(objs) : objs[k].type # "Ground" }
            IN  /\ Cardinality(backs) = 1
                /\ Cardinality(fronts) = 1
                /\ \A b \in backs :
                      IF nonGround # {}
                      THEN /\ b + 1 \in SelectedDraws(calls, z)
                           /\ calls[b + 1].idx \in nonGround
                           /\ \A k \in nonGround : calls[b + 1].idx <= k
                      ELSE \A i \in SelectedDraws(calls, z) : i < b
                /\ \A f \in fronts :
                      /\ \A i \in SelectedDraws(calls, z) : i < f
                      /\ \A b \in backs : b < f

\* A pass has highlighted tile column (0, 1) on two levels: on level 0, where
\* the list is Ground, Unit, Scenery, and on level 1, where it is Ground only.
C14_Witness ==
    LET calls == PassCalls IN
    /\ Rendered
    /\ mode = "Battle" /\ viewMode = "Isometric"
    /\ selectedTilePosition = Vec3(0, 1, 1)
    /\ HighlightedLevels(calls) = {0, 1}
    /\ Cardinality(CallsOf(calls, "drawBack")) = 2
    /\ Len(SelectedList(0)) = 3 /\ SelectedList(0)[2].type = "Unit"
    /\ Len(SelectedList(1)) = 1 /\ SelectedList(1)[1].type = "Ground"

\* The sprite pair for the selected tile column on level z: filled or empty
\* on the selected tile's own level, by whether an object intersecting the
\* tile is a Unit, and background on the levels below it.
PairFor(z) ==
    IF z = selectedTilePosition.z
    THEN IF \E t \in tileMap[<<selectedTilePosition.x, selectedTilePosition.y,
                              z>>].intersectingObjects : t = "Unit"
         THEN "filled" ELSE "empty"
    ELSE "background"

\* C15: every highlight sprite drawn on a level z is of the filled pair when
\* z is the selected tile's level and an object intersecting the tile is a
\* Unit, of the empty pair when z is that level and none is, and of the
\* background pair when z is below it; none is drawn on a level above it; and
\* on every highlighted level both sprites of the pair are drawn.
C15_HighlightPair ==
    LET calls == PassCalls IN
    Rendered =>
        /\ \A i \in CallsOf(calls, "drawBack") \cup CallsOf(calls, "drawFront") :
              /\ calls[i].z <= selectedTilePosition.z
              /\ calls[i].image = PairFor(calls[i].z)
        /\ \A z \in HighlightedLevels(calls) :
              /\ \E i \in CallsOf(calls, "drawBack") : calls[i].z = z
              /\ \E i \in CallsOf(calls, "drawFront") : calls[i].z = z

\* A pass has drawn the filled pair on the selected tile's level, a unit
\* standing across the tile, and the background pair on the level below.
C15_Witness ==
    LET calls == PassCalls IN
    /\ Rendered
    /\ selectedTilePosition = Vec3(0, 0, 1)
    /\ \E i \in CallsOf(calls, "drawBack") :
          calls[i].z = 1 /\ calls[i].image = "filled"
    /\ \E i \in CallsOf(calls, "drawFront") :
          calls[i].z = 0 /\ calls[i].image = "background"

\* The z-levels of the loop iterations of a pass, in order.
IsLevelCall(c) == c.call = "level"
LevelSeq(calls) ==
    LET lv == SelectSeq(calls, IsLevelCall)
    IN  [ i \in 1 .. Len(lv) |-> lv[i].z ]

\* C16: the z-levels a render pass goes over are 0 .. currentZLevel - 1
\* under UpToCurrentLevel, 0 .. maxZDraw - 1 under AllLevels and
\* currentZLevel - 1 alone under OnlyCurrentLevel, in ascending order; and
\* the tiles it looks up and the objects it draws are on these levels, on
\* each of them when the visible rectangle is not empty.
C16_LevelsDrawn ==
    LET calls == PassCalls IN
    Rendered =>
        LET range == IF layerDrawingMode = "UpToCurrentLevel"
                     THEN 0 .. (currentZLevel - 1)
                     ELSE IF layerDrawingMode = "AllLevels"
                     THEN 0 .. (maxZDraw - 1)
                     ELSE {currentZLevel - 1}
            rect == VisibleRect(centerPos, viewMode)
        IN  /\ Len(LevelSeq(calls)) = Cardinality(range)
            /\ \A i \in 1 .. Len(LevelSeq(calls)) :
                  /\ LevelSeq(calls)[i] \in range
                  /\ \A j \in 1 .. Len(LevelSeq(calls)) :
                        i < j => LevelSeq(calls)[i] < LevelSeq(calls)[j]
            /\ \A i \in CallsOf(calls, "getTile") \cup CallsOf(calls, "drawObject") :
                  calls[i].z \in range
            /\ (rect.minX < rect.maxX /\ rect.minY < rect.maxY) =>
                  \A z \in range : \E i \in CallsOf(calls, "getTile") : calls[i].z = z

\* A pass under OnlyCurrentLevel on z-level 2 has drawn objects, all of them
\* on level 1.
C16_Witness ==
    LET calls == PassCalls IN
    /\ Rendered
    /\ layerDrawingMode = "OnlyCurrentLevel"
    /\ currentZLevel = 2
    /\ LevelSeq(calls) = <<1>>
    /\ CallsOf(calls, "drawObject") # {}

\* C17: every tile lookup of a render pass, in the scan over the visible
\* rectangle and for the selected tile column, is at coordinates inside the
\* map: 0 <= x < mapSize.x, 0 <= y < mapSize.y, 0 <= z < mapSize.z.
C17_LookupsInMap ==
    LET calls == PassCalls IN
    Rendered =>
        \A i \in CallsOf(calls, "getTile") \cup CallsOf(calls, "getSelectedTile") :
            /\ 0 <= calls[i].x /\ calls[i].x < MapX
            /\ 0 <= calls[i].y /\ calls[i].y < MapY
            /\ 0 <= calls[i].z /\ calls[i].z < MapZ

\* A pass on the small display with the camera in the far corner of the map,
\* where three corners of the display fall outside the map and the visible
\* rectangle is the last tile column alone, has looked up that column, also
\* as the selected one, on the top level.
C17_Witness ==
    LET calls == PassCalls IN
    /\ Rendered
    /\ dpySize = Vec2(SmallDpy, SmallDpy)
    /\ centerPos = Vec3(ToFloat(MapX), ToFloat(MapY), 0)
    /\ VisibleRect(centerPos, viewMode).minX = MapX - 1
    /\ \E i \in CallsOf(calls, "getSelectedTile") :
          calls[i].x = MapX - 1 /\ calls[i].y = MapY - 1
    /\ \E i \in CallsOf(calls, "getTile") : calls[i].z = MapZ - 1

\* C18: in one render pass every object of every per-layer list of every
\* tile of the visible rectangle on the levels the pass goes over is drawn
\* exactly once, on the highlighted selected tile as on any other, and
\* nothing else is drawn as an object.
C18_EachObjectOnce ==
    LET calls == PassCalls IN
    Rendered =>
        LET rect == VisibleRect(centerPos, viewMode)
            listed ==
                UNION { { tileMap[<<x, y, z>>].drawnObjects[layer][k].id :
                            k \in 1 .. Len(tileMap[<<x, y, z>>].drawnObjects[layer]) } :
                          x \in rect.minX .. (rect.maxX - 1),
                          y \in rect.minY .. (rect.maxY - 1),
                          z \in PassLevels(calls),
                          layer \in 0 .. LayerCount - 1 }
        IN  /\ \A id \in listed :
                  Cardinality({ i \in CallsOf(calls, "drawObject") :
                                  calls[i].id = id }) = 1
            /\ \A i \in CallsOf(calls, "drawObject") : calls[i].id \in listed

\* A pass has highlighted tile (1, 1, 0), whose layer-0 list starts with a
\* Scenery object, and has drawn this object and the Ground object after it.
C18_Witness ==
    LET calls == PassCalls IN
    /\ Rendered
    /\ selectedTilePosition = Vec3(1, 1, 0)
    /\ 0 \in HighlightedLevels(calls)
    /\ SelectedList(0)[1].type = "Scenery"
    /\ Cardinality(SelectedDraws(calls, 0)) = 2

\* The sum of the vectors of the scroll flags that are set, fixed point: in
\* Isometric view left = (-0.5, +0.5), right = (+0.5, -0.5),
\* up = (-0.5, -0.5), down = (+0.5, +0.5); in Strategy view left and right
\* are -2.0 and +2.0 on x, up and down -2.0 and +2.0 on y.
Half == Q \div 2

ScrollSum(m) ==
    LET l == IF m = "Isometric" THEN Vec2(-Half, Half) ELSE Vec2(-2 * Q, 0)
        r == IF m = "Isometric" THEN Vec2(Half, -Half) ELSE Vec2(2 * Q, 0)
        u == IF m = "Isometric" THEN Vec2(-Half, -Half) ELSE Vec2(0, -2 * Q)
        d == IF m = "Isometric" THEN Vec2(Half, Half) ELSE Vec2(0, 2 * Q)
        Part(flag, v) == IF flag THEN v ELSE Vec2(0, 0)
    IN  Vec2(Part(scrollLeft, l).x + Part(scrollRight, r).x
                + Part(scrollUp, u).x + Part(scrollDown, d).x,
             Part(scrollLeft, l).y + Part(scrollRight, r).y
                + Part(scrollUp, u).y + Part(scrollDown, d).y)

\* Only opposing flags are set: left with right, up with down, or all four.
OpposingOnly ==
    /\ scrollLeft = scrollRight
    /\ scrollUp = scrollDown
    /\ scrollLeft \/ scrollUp

\* C19: a render tick in Isometric or Strategy view moves the camera
\* centre's x and y by the sum of the vectors of the scroll flags that are
\* set and clamps them to the map; the centre's z is not changed, and with
\* only opposing flags set the centre is not changed at all.
C19_ScrollVectors ==
    [][ (lastOp'.op = "render" /\ viewMode \in ViewModes) =>
          /\ centerPos'.x = AxisClamp(centerPos.x + ScrollSum(viewMode).x,
                                      0, ToFloat(MapX))
          /\ centerPos'.y = AxisClamp(centerPos.y + ScrollSum(viewMode).y,
                                      0, ToFloat(MapY))
          /\ centerPos'.z = centerPos.z
          /\ OpposingOnly => centerPos' = centerPos ]_vars

\* A tick in Isometric view with scrollLeft and scrollDown set, whose
\* vectors add up to (0, +1), has left the centre at (0.5, 1.5, 1).
C19_Witness ==
    /\ lastOp.op = "render"
    /\ viewMode = "Isometric"
    /\ scrollLeft /\ scrollDown /\ ~scrollRight /\ ~scrollUp
    /\ centerPos = Vec3(Q \div 2, Q + Q \div 2, Q)

\* C20: setZLevel leaves the camera centre's x and y as they were and sets
\* the centre's z to the new z-level, which is the argument clamped to
\* [1, maxZDraw], minus one.
C20_ZLevelKeepsFocus ==
    [][ lastOp'.op = "setZLevel" =>
          /\ centerPos'.x = centerPos.x
          /\ centerPos'.y = centerPos.y
          /\ centerPos'.z = ToFloat(AxisClamp(lastOp'.zLevel, 1, maxZDraw) - 1)
          /\ centerPos'.z = ToFloat(currentZLevel' - 1) ]_vars

\* setZLevel with a value above maxZDraw has lifted the centre (0.5, 2, .)
\* to the plane maxZDraw - 1.
C20_Witness ==
    /\ lastOp.op = "setZLevel"
    /\ lastOp.zLevel > maxZDraw
    /\ centerPos = Vec3(Q \div 2, ToFloat(MapY), ToFloat(maxZDraw - 1))


\* The corners of the isometric view's display in the order of the outline:
\* top-left, top-right, bottom-right, bottom-left.
OutlineCorners ==
    << OutlineCorner(centerPos, viewMode, -1, -1),
       OutlineCorner(centerPos, viewMode, 1, -1),
       OutlineCorner(centerPos, viewMode, 1, 1),
       OutlineCorner(centerPos, viewMode, -1, 1) >>

\* C21: a render pass draws lines if and only if the view mode is Strategy;
\* it then draws four, one after the other, from the top-left corner of the
\* isometric view's display to the top-right, on to the bottom-right, to the
\* bottom-left and back to the top-left, each line starting where the one
\* before it ends, and all of them after every object draw of the pass.
C21_OutlineInStrategy ==
    LET calls == PassCalls IN
    Rendered =>
        LET lines == CallsOf(calls, "drawLine")
            corners == OutlineCorners
        IN  /\ (lines # {}) <=> (viewMode = "Strategy")
            /\ (lines # {}) =>
                  /\ Cardinality(lines) = 4
                  /\ \A i \in lines : \A j \in CallsOf(calls, "drawObject") : j < i
                  /\ \E first \in lines :
                        /\ lines = first .. (first + 3)
                        /\ \A k \in 0 .. 3 :
                              /\ calls[first + k].from = corners[k + 1]
                              /\ calls[first + k].to = corners[((k + 1) % 4) + 1]

\* A pass in Strategy view on the large display has drawn objects and then
\* the four lines of an outline whose corners are four different points.
C21_Witness ==
    LET calls == PassCalls IN
    /\ Rendered
    /\ viewMode = "Strategy"
    /\ dpySize = Vec2(DpyW, DpyH)
    /\ CallsOf(calls, "drawObject") # {}
    /\ Cardinality(CallsOf(calls, "drawLine")) = 4
    /\ Cardinality({ OutlineCorners[k] : k \in 1 .. 4 }) = 4
    /\ calls[Len(calls)].to = OutlineCorners[1]


\* C22 as stated: the camera centre's z is currentZLevel - 1 in every state.
C22_CentreOnLevel == centerPos.z = ToFloat(currentZLevel - 1)

\* C22, amended: the camera centre's z is currentZLevel - 1 after
\* construction and after every setZLevel; render ticks and finger moves
\* leave it as it is; setScreenCenterTile(Vec3) sets it to the z of its
\* argument clamped to [0, map.size.z], and setScreenCenterTile(Vec2) sets
\* it to currentZLevel, one above the plane on which the pointer selects.
C22_CentreZ ==
    /\ []( lastOp.op \in {"construct", "setZLevel"} =>
              centerPos.z = ToFloat(currentZLevel - 1) )
    /\ [][ /\ lastOp'.op \in {"render", "fingerMove"} =>
                 centerPos'.z = centerPos.z
           /\ lastOp'.op = "setScreenCenterTile" =>
                 centerPos'.z = AxisClamp(lastOp'.center.z, 0, ToFloat(MapZ))
           /\ lastOp'.op = "setScreenCenterTile2" =>
                 /\ centerPos'.z = ToFloat(currentZLevel)
                 /\ currentZLevel' = currentZLevel ]_vars

\* setScreenCenterTile(Vec2) on z-level 1 has left the centre on z = 1, not
\* on the selecting plane z = 0.
C22_Witness ==
    /\ lastOp.op = "setScreenCenterTile2"
    /\ currentZLevel = 1
    /\ centerPos.z = ToFloat(1)
    /\ centerPos.z # ToFloat(currentZLevel - 1)


\* The scroll flag of an arrow key.
FlagOf(k) ==
    CASE k = "UP" -> scrollUp
      [] k = "DOWN" -> scrollDown
      [] k = "LEFT" -> scrollLeft
      [] k = "RIGHT" -> scrollRight

\* C23: the scroll flags are all false after construction; a key-down of an
\* arrow key sets the flag of that key and a key-up clears it, each leaving
\* the flags of the other three keys as they are; and no other event and no
\* render tick changes a flag.  Hence each flag is true exactly when the
\* last key-down or key-up of its key was a key-down.
C23_FlagsFollowKeys ==
    /\ []( lastOp.op = "construct" => \A k \in ArrowKeys : ~FlagOf(k) )
    /\ [][ \A k \in ArrowKeys :
             FlagOf(k)' =
                IF lastOp'.op = "keyDown" /\ lastOp'.key = k THEN TRUE
                ELSE IF lastOp'.op = "keyUp" /\ lastOp'.key = k THEN FALSE
                ELSE FlagOf(k) ]_vars

\* The left key has been released while the right key, pressed earlier,
\* is still held and render ticks have scrolled the camera off its start.
C23_Witness ==
    /\ lastOp.op = "keyUp" /\ lastOp.key = "LEFT"
    /\ ~scrollLeft /\ scrollRight /\ ~scrollUp /\ ~scrollDown
    /\ centerPos # Vec3(0, 0, 0)


\* C24: a City-mode view has layer drawing mode AllLevels in every state,
\* whatever setLayerDrawingMode calls are made; a Battle-mode view starts
\* with UpToCurrentLevel, every setLayerDrawingMode call sets the layer
\* drawing mode to its argument, and no other operation changes it.
C24_LayerModeBattleOnly ==
    /\ []( mode = "City" => layerDrawingMode = "AllLevels" )
    /\ []( (mode = "Battle" /\ lastOp.op = "construct") =>
              layerDrawingMode = "UpToCurrentLevel" )
    /\ [][ mode = "Battle" =>
             layerDrawingMode' =
                IF lastOp'.op = "setLayerDrawingMode"
                THEN lastOp'.newLayerMode
                ELSE layerDrawingMode ]_vars

\* setLayerDrawingMode(OnlyCurrentLevel) has been called on a City-mode
\* view, which still draws all levels.
C24_Witness ==
    /\ mode = "City"
    /\ lastOp.op = "setLayerDrawingMode"
    /\ lastOp.newLayerMode = "OnlyCurrentLevel"
    /\ layerDrawingMode = "AllLevels"


\* The operations that end in saveGame, and a step of one of them that has
\* called saveGame for a path at which a file existed.
SaveOps == {"newSaveGame", "overrideGame", "specialSaveGame"}

C26_NewSaveNeverOverwrites ==
    [][ lastOp'.op = "newSaveGame" =>
          LET defaultPath == <<saveDirectory, "save_", lastOp'.name, saveFileExtension>>
          IN  /\ lastOp'.saveGameCalled => files[lastOp'.path] = Absent
              /\ \A p \in AllPaths : files[p] # Absent => files'[p] = files[p]
              /\ ( /\ files[defaultPath] # Absent
                   /\ Len(lastOp'.retried) = 5
                   /\ \A i \in 1 .. 5 : files[lastOp'.retried[i]] # Absent ) =>
                    /\ lastOp'.result = "false"
                    /\ ~lastOp'.saveGameCalled
                    /\ files' = files ]_vars

\* A new save has been written to the path of the last of its 5 retries,
\* the default path and the path of the first four retries being taken.
C26_Witness ==
    /\ lastOp.op = "newSaveGame"
    /\ Len(lastOp.retried) = 5
    /\ lastOp.retried[1] # lastOp.retried[5]
    /\ lastOp.path = lastOp.retried[5]
    /\ lastOp.result = "true"
    /\ files[lastOp.path] = lastOp.data
    /\ files[lastOp.retried[1]] # Absent
    /\ files[createSavePath(<<"save_", lastOp.name>>)] # Absent


\* The file of the special save slot of a type: Quicksave or Autosave in
\* the save directory.
SlotPath(type) ==
    <<saveDirectory, IF type = "Quick" THEN "Quicksave" ELSE "Autosave",
      saveFileExtension>>

\* C27: specialSaveGame(Manual, state) returns false without calling
\* saveGame and without touching a file, and loadSpecialSave(Manual) returns
\* a future of a null game state without enqueuing a load task; for Quick
\* and Auto, specialSaveGame saves to the file Quicksave or Autosave of the
\* save directory, touching no other save, and loadSpecialSave enqueues the
\* load of that same file.
C27_SpecialSlots ==
    [][ /\ (lastOp'.op = "specialSaveGame" /\ lastOp'.type = "Manual") =>
              /\ lastOp'.result = "false"
              /\ ~lastOp'.saveGameCalled
              /\ lastOp'.write = "none"
              /\ files' = files
        /\ (lastOp'.op = "loadSpecialSave" /\ lastOp'.type = "Manual") =>
              /\ lastOp'.future = "null"
              /\ threadPool' = threadPool
        /\ (lastOp'.op = "specialSaveGame" /\ lastOp'.type \in {"Quick", "Auto"}) =>
              /\ lastOp'.saveGameCalled
              /\ lastOp'.path = SlotPath(lastOp'.type)
              /\ \A p \in (SpecialPaths \cup NewSavePaths) \ {SlotPath(lastOp'.type)} :
                    files'[p] = files[p]
              /\ lastOp'.result = "true" => files'[SlotPath(lastOp'.type)] = lastOp'.data
        /\ (lastOp'.op = "loadSpecialSave" /\ lastOp'.type \in {"Quick", "Auto"}) =>
              /\ lastOp'.future = "task"
              /\ threadPool' = Append(threadPool, SlotPath(lastOp'.type)) ]_vars

\* After a quick save has written state2 to the file Quicksave, the load of
\* the quick save has been enqueued for that file; no automatic save exists.
C27_Witness ==
    /\ lastOp.op = "loadSpecialSave"
    /\ lastOp.type = "Quick"
    /\ files[SlotPath("Quick")] = "state2"
    /\ files[SlotPath("Auto")] = Absent
    /\ threadPool = <<SlotPath("Quick")>>

\* The command the menu owes the stage manager for the last event it acted
\* on: QUIT for Escape and the Quit button, PUSH of the matching stage for
\* the four menu buttons, CONTINUE if there was none.
OwedCmd(e) ==
    CASE e = NoEvent -> "CONTINUE"
      [] e = KeyEvent("EVENT_KEY_DOWN", "SDLK_ESCAPE") -> "QUIT"
      [] e = FormEvent("ButtonClick", "BUTTON_QUIT") -> "QUIT"
      [] OTHER -> "PUSH"
OwedStage(e) ==
    CASE e = FormEvent("ButtonClick", "BUTTON_OPTIONS") -> "OptionsMenu"
      [] e = FormEvent("ButtonClick", "BUTTON_NEWGAME") -> "DifficultyMenu"
      [] e = FormEvent("ButtonClick", "BUTTON_DEBUG") -> "DebugMenu"
      [] e = FormEvent("ButtonClick", "BUTTON_LOADGAME") -> "SaveMenu"
      [] OTHER -> NoStage

\* C28: MainMenu hands each pending stage command over exactly once. The
\* pending command is always the one owed for the last event the menu acted
\* on since the previous Update (QUIT for Escape or the Quit button, PUSH
\* with the matching next stage for Options, New Game, Debug, Load Game), and
\* the default command if there was no such event; Update returns the pending
\* command and resets it to the default, so an Update with no new event since
\* the previous one returns the default (CONTINUE) command.
C28_CommandHandedOnce ==
    /\ [](/\ stageCmd.cmd = OwedCmd(pendingEvent)
          /\ stageCmd.cmd = "PUSH" => stageCmd.nextStage = OwedStage(pendingEvent)
          /\ pendingEvent = NoEvent => stageCmd = StageCmd)
    /\ [][lastOp'.op = "menuUpdate" =>
            /\ lastOp'.cmd = stageCmd
            /\ lastOp'.cmd.cmd = OwedCmd(pendingEvent)
            /\ pendingEvent = NoEvent => lastOp'.cmd = StageCmd
            /\ stageCmd' = StageCmd]_vars

\* An Update has just handed over the PUSH of the load menu, and nothing is
\* pending any more.
C28_Witness ==
    /\ lastOp.op = "menuUpdate"
    /\ lastOp.cmd = [ cmd |-> "PUSH", nextStage |-> "SaveMenu" ]
    /\ stageCmd = StageCmd

=============================================================================
